---- MODULE Spec2Model ----
(***************************************************************************)
(* Model of the build-time MASM pipeline of the lending-protocol client    *)
(* (src/client/build.rs): copy of the ASM tree into the build workspace,   *)
(* compilation of the contracts into libraries, compilation of the note    *)
(* scripts into programs, and generation of the error-constant registry.   *)
(*                                                                         *)
(* Strings are sequences of one-character strings, so that trimming and    *)
(* the byte order of names are computed and not assumed.  A file of the    *)
(* contracts tree is a record: whether it parses as a library module, the  *)
(* libraries it calls into, and the captures the error regex finds in it,  *)
(* in textual order.                                                       *)
(*                                                                         *)
(* Spec is the whole of main, with copy_directory as one step.  ErrSpec    *)
(* is generate_error_constants alone over richer declarations, NotesSpec   *)
(* is compile_note_scripts alone from every Assembler it may be handed,    *)
(* and CopySpec is the work-list loop of copy_directory alone over any     *)
(* small tree and any stale destination.  EnvSpec is main with the         *)
(* BUILD_GENERATED_FILES_IN_SRC variable set or unset, NestSpec is main    *)
(* over contracts trees with a file in a subdirectory, and StaleSpec is    *)
(* main in a workspace an earlier build has filled.  ScriptSpec and TxSpec *)
(* model the client library: the TransactionScriptBuilder of               *)
(* src/miden_client.rs and borrow and repay of src/transactions.rs.        *)
(***************************************************************************)
EXTENDS Integers, Sequences, FiniteSets, TLC

VARIABLES
    src,          \* the crate's src/asm tree (CARGO_MANIFEST_DIR/src/asm)
    ws,           \* the copy under OUT_DIR/asm
    canWrite,     \* CAN_WRITE_TO_SRC
    BUILD_GENERATED_FILES_IN_SRC,  \* the environment variable of that name
    pc,           \* position of main
    result,       \* what main returns
    called,       \* the functions main has called so far
    warnings,     \* the cargo:warning lines printed so far
    assembler,    \* libraries registered in the Assembler, in order
    masmFiles,    \* the Vec returned by get_masm_files for the running loop
    idx,          \* number of entries of masmFiles the loop has taken
    assetsLibs,   \* OUT_DIR/assets/contracts: stems of the .masl files
    assetsProgs,  \* OUT_DIR/assets/note_scripts: stems of the .masb files
    written,      \* the output paths this run has written
    errors,       \* the BTreeMap of generate_error_constants
    walkTodo,     \* files the WalkDir iterator has not yielded yet
    text,         \* error_file_content
    errFile,      \* src/errors/lending_errors.rs on disk
    tree,         \* copy_directory on its own: the tree under its src
    dest,         \* copy_directory on its own: the tree under dst/asm
    todo,         \* the work list of copy_directory
    entries,      \* entries of the directory being read not yet yielded
    visits,       \* how many times each directory was taken off todo
    scriptCode,   \* TransactionScriptBuilder.code
    script,       \* the String returned by TransactionScriptBuilder::build
    invoked,      \* the builder methods called so far, in order
    txpc,         \* position of TransactionBuilder::borrow or ::repay
    frame,        \* the running borrow or repay and its arguments
    started,      \* number of borrow and repay calls made so far
    executed,     \* the execute_transaction calls made so far, in order
    ret           \* what the last borrow or repay returned

copyVars == <<tree, dest, todo, entries, visits>>

clientVars == <<scriptCode, script, invoked, txpc, frame, started, executed, ret>>

\* What no step of main reads or writes.
otherVars == <<BUILD_GENERATED_FILES_IN_SRC, clientVars, copyVars>>

vars == <<BUILD_GENERATED_FILES_IN_SRC, src, ws, canWrite, pc, result, called, warnings, assembler, masmFiles,
          idx, assetsLibs, assetsProgs, written, errors, walkTodo, text, errFile,
          copyVars, clientVars>>

buildVars == <<BUILD_GENERATED_FILES_IN_SRC, src, ws, canWrite, pc, result, called, warnings, assembler, masmFiles,
               idx, assetsLibs, assetsProgs, written, errors, walkTodo, text, errFile,
               copyVars>>

----------------------------------------------------------------------------
(* Bounds *)

MaxLibs == 2
MaxScripts == 1
MaxErrFiles == 2
MaxDecls == 3

----------------------------------------------------------------------------
(* Strings *)

Whitespace == {" "}

Ord(c) ==
    CASE c = " " -> 32
      [] c = "A" -> 65
      [] c = "B" -> 66
      [] c = "x" -> 120
      [] c = "y" -> 121

RECURSIVE TrimStart(_)
TrimStart(s) ==
    IF s # <<>> /\ Head(s) \in Whitespace THEN TrimStart(Tail(s)) ELSE s

RECURSIVE TrimEnd(_)
TrimEnd(s) ==
    IF s # <<>> /\ s[Len(s)] \in Whitespace
    THEN TrimEnd(SubSeq(s, 1, Len(s) - 1))
    ELSE s

Trim(s) == TrimEnd(TrimStart(s))

\* Ord for String: byte-wise lexicographic, a proper prefix first.
RECURSIVE StrLess(_, _)
StrLess(a, b) ==
    IF b = <<>> THEN FALSE
    ELSE IF a = <<>> THEN TRUE
    ELSE IF Ord(Head(a)) # Ord(Head(b)) THEN Ord(Head(a)) < Ord(Head(b))
    ELSE StrLess(Tail(a), Tail(b))

----------------------------------------------------------------------------
(* BTreeMap<String, String> *)

EmptyMap == [k \in {} |-> <<>>]

MapInsert(m, k, v) == [x \in (DOMAIN m) \cup {k} |-> IF x = k THEN v ELSE m[x]]

\* BTreeMap::iter: the keys in ascending order.
RECURSIVE MapKeys(_)
MapKeys(S) ==
    IF S = {} THEN <<>>
    ELSE LET least == CHOOSE k \in S : \A o \in S \ {k} : StrLess(k, o)
         IN  <<least>> \o MapKeys(S \ {least})

----------------------------------------------------------------------------
(* Files and directories *)

\* str::to_lowercase on the extensions that occur.
ToLowercase(e) == IF e = "MASM" THEN "masm" ELSE e

IsMasmFile(file) == ToLowercase(file.ext) = "masm"

\* A non-MASM entry of a directory; stem 0 is kept for it.  depth is the
\* number of subdirectories between the directory and the file.
Readme == [ext |-> "md", parses |-> FALSE, calls |-> {}, decls |-> <<>>, depth |-> 0]

NoDir == [k \in {} |-> Readme]

NoTree == [exists |-> FALSE, hasContracts |-> FALSE, contracts |-> NoDir,
           hasNotes |-> FALSE, notes |-> NoDir]

RECURSIVE Perms(_)
Perms(S) ==
    IF S = {} THEN {<<>>}
    ELSE UNION {{<<x>> \o p : p \in Perms(S \ {x})} : x \in S}

\* get_masm_files: the MASM files directly in the directory, in the order
\* fs::read_dir happens to list them; read_dir does not descend.
GetMasmFiles(dir) ==
    Perms({f \in DOMAIN dir : IsMasmFile(dir[f]) /\ dir[f].depth = 0})

\* A walk that stays in the directory itself.
WalkDirTopLevel(dir) == {f \in DOMAIN dir : dir[f].depth = 0}

\* WalkDir::new(source_dir): every entry beneath the directory, at any depth.
WalkDir(dir) == DOMAIN dir

MergeDir(old, new) ==
    [f \in (DOMAIN old) \cup (DOMAIN new) |->
        IF f \in DOMAIN new THEN new[f] ELSE old[f]]

\* copy_directory making the destination a mirror of the source: what the
\* source does not have is removed.
CopyDirectoryMirror(from, to) ==
    [exists       |-> TRUE,
     hasContracts |-> from.hasContracts,
     contracts    |-> from.contracts,
     hasNotes     |-> from.hasNotes,
     notes        |-> from.notes]

\* copy_directory: directories are created when missing, files are copied
\* over whatever is there; nothing is removed.
CopyDirectory(from, to) ==
    [exists       |-> TRUE,
     hasContracts |-> to.hasContracts \/ from.hasContracts,
     contracts    |-> MergeDir(to.contracts, from.contracts),
     hasNotes     |-> to.hasNotes \/ from.hasNotes,
     notes        |-> MergeDir(to.notes, from.notes)]

----------------------------------------------------------------------------
(* copy_directory on its own, over any finite tree.  A tree is a function  *)
(* from the paths below its root (sequences of names, the root being the   *)
(* empty path) to nodes: a directory, or a regular file with its bytes.    *)

MaxNodes == 3

MaxStale == 1

FileNames == {"a", "b"}

EmptyTree == <<>>

Dir == [kind |-> "dir", bytes |-> ""]

File(b) == [kind |-> "file", bytes |-> b]

Parent(p) == SubSeq(p, 1, Len(p) - 1)

\* fs::read_dir: the entries of the directory at p.
Children(t, p) == {q \in DOMAIN t : Len(q) = Len(p) + 1 /\ Parent(q) = p}

\* Path::exists
Exists(t, p) == p = <<>> \/ p \in DOMAIN t

\* Path::is_dir
IsDir(t, p) == p = <<>> \/ (p \in DOMAIN t /\ t[p].kind = "dir")

Put(t, p, node) == [q \in (DOMAIN t) \cup {p} |-> IF q = p THEN node ELSE t[q]]

\* fs::create_dir_all: the directory and its missing ancestors are created;
\* it fails when the path or an ancestor exists and is a file.
RECURSIVE CreateDirAll(_, _)
CreateDirAll(t, p) ==
    IF IsDir(t, p) THEN [ok |-> TRUE, fs |-> t]
    ELSE IF Exists(t, p) THEN [ok |-> FALSE, fs |-> t]
    ELSE LET up == CreateDirAll(t, Parent(p))
         IN  IF up.ok THEN [ok |-> TRUE, fs |-> Put(up.fs, p, Dir)]
             ELSE [ok |-> FALSE, fs |-> t]

\* fs::copy of the file node to the path p of t: the target is created or
\* overwritten; it fails when the target is a directory or is not in one.
FsCopy(t, p, node) ==
    IF IsDir(t, Parent(p)) /\ ~IsDir(t, p)
    THEN [ok |-> TRUE, fs |-> Put(t, p, node)]
    ELSE [ok |-> FALSE, fs |-> t]

\* The trees that have one node more than t.
Extend(t, contents) ==
    { Put(t, Append(d, n), node) :
        <<d, n, node>> \in
          { x \in ({<<>>} \cup {q \in DOMAIN t : t[q].kind = "dir"})
                    \X FileNames \X ({Dir} \cup {File(b) : b \in contents}) :
              Append(x[1], x[2]) \notin DOMAIN t } }

RECURSIVE TreesUpTo(_, _)
TreesUpTo(n, contents) ==
    IF n = 0 THEN {EmptyTree}
    ELSE LET S == TreesUpTo(n - 1, contents)
         IN  S \cup UNION {Extend(t, contents) : t \in S}

\* The trees copy_directory may be given, and what an earlier build may have
\* left under dst/asm.
SourceTrees == TreesUpTo(MaxNodes, {"x", "y"})

StaleTrees == TreesUpTo(MaxStale, {"old"})

\* The variables of copy_directory while main is modelled without them.
CopyIdle ==
    /\ tree = EmptyTree
    /\ dest = EmptyTree
    /\ todo = <<>>
    /\ entries = {}
    /\ visits = <<>>

\* The variables of the client library while the build script is modelled.
ClientIdle ==
    /\ scriptCode = <<>>
    /\ script = <<>>
    /\ invoked = <<>>
    /\ txpc = "idle"
    /\ frame = [fn |-> "none"]
    /\ started = 0
    /\ executed = <<>>
    /\ ret = "none"

----------------------------------------------------------------------------
(* Assembly *)

Range(s) == {s[i] : i \in DOMAIN s}

\* create_library handed a fresh assembler instead of the accumulated one.
CreateLibraryFreshAssembler(asm, name, code) ==
    [ok      |-> code.parses /\ code.calls \subseteq {},
     library |-> name]

\* create_library: parse the code as a library module, then assemble it with
\* the libraries registered so far.
CreateLibrary(asm, name, code) ==
    [ok      |-> code.parses /\ code.calls \subseteq Range(asm),
     library |-> name]

\* Assembler::assemble_program
AssembleProgram(asm, code) == code.parses /\ code.calls \subseteq Range(asm)

----------------------------------------------------------------------------
(* Error registry *)

\* extract_errors without the conflict check: the later message replaces the
\* earlier one.
RECURSIVE ExtractErrorsOverwrite(_, _)
ExtractErrorsOverwrite(errs, captures) ==
    IF captures = <<>> THEN [ok |-> TRUE, errors |-> errs]
    ELSE ExtractErrorsOverwrite(
             MapInsert(errs, Trim(Head(captures).name), Trim(Head(captures).message)),
             Tail(captures))

\* extract_errors failing on every name that is already in the map.
RECURSIVE ExtractErrorsRejectDuplicate(_, _)
ExtractErrorsRejectDuplicate(errs, captures) ==
    IF captures = <<>> THEN [ok |-> TRUE, errors |-> errs]
    ELSE IF Trim(Head(captures).name) \in DOMAIN errs
         THEN [ok |-> FALSE, errors |-> errs]
         ELSE ExtractErrorsRejectDuplicate(
                  MapInsert(errs, Trim(Head(captures).name),
                            Trim(Head(captures).message)),
                  Tail(captures))

\* extract_errors comparing the new message with the stored one before
\* trimming it.
RECURSIVE ExtractErrorsUntrimmedCompare(_, _)
ExtractErrorsUntrimmedCompare(errs, captures) ==
    IF captures = <<>> THEN [ok |-> TRUE, errors |-> errs]
    ELSE LET error_name == Trim(Head(captures).name)
         IN  IF error_name \in DOMAIN errs /\ errs[error_name] # Head(captures).message
             THEN [ok |-> FALSE, errors |-> errs]
             ELSE ExtractErrorsUntrimmedCompare(
                      MapInsert(errs, error_name, Trim(Head(captures).message)),
                      Tail(captures))

\* extract_errors over the captures of one file; the map keeps what was
\* inserted before a conflict.
RECURSIVE ExtractErrors(_, _)
\* extract_errors inserting the capture before it compares the messages.
RECURSIVE ExtractErrorsInsertFirst(_, _)
ExtractErrorsInsertFirst(errs, captures) ==
    IF captures = <<>> THEN [ok |-> TRUE, errors |-> errs]
    ELSE LET error_name    == Trim(Head(captures).name)
             error_message == Trim(Head(captures).message)
             inserted      == MapInsert(errs, error_name, error_message)
         IN  IF error_name \in DOMAIN errs /\ errs[error_name] # error_message
             THEN [ok |-> FALSE, errors |-> inserted]
             ELSE ExtractErrorsInsertFirst(inserted, Tail(captures))

ExtractErrors(errs, captures) ==
    IF captures = <<>> THEN [ok |-> TRUE, errors |-> errs]
    ELSE LET error_name    == Trim(Head(captures).name)
             error_message == Trim(Head(captures).message)
         IN  IF error_name \in DOMAIN errs /\ errs[error_name] # error_message
             THEN [ok |-> FALSE, errors |-> errs]
             ELSE ExtractErrors(MapInsert(errs, error_name, error_message),
                                Tail(captures))

Line(kind, name, message) == [kind |-> kind, name |-> name, message |-> message]

FileHeader ==
    << Line("use", <<>>, <<>>), Line("blank", <<>>, <<>>),
       Line("comment_generated", <<>>, <<>>),
       Line("comment_extracts", <<>>, <<>>), Line("blank", <<>>, <<>>) >>

RECURSIVE ErrorBlocks(_, _)
ErrorBlocks(errs, keys) ==
    IF keys = <<>> THEN <<>>
    ELSE << Line("doc", <<>>, errs[Head(keys)]),
            Line("const", Head(keys), errs[Head(keys)]) >>
         \o ErrorBlocks(errs, Tail(keys))

Reverse(q) == [i \in 1..Len(q) |-> q[Len(q) + 1 - i]]

\* generate_error_file iterating the map from the greatest name down.
GenerateErrorFileDescending(errs) ==
    FileHeader \o ErrorBlocks(errs, Reverse(MapKeys(DOMAIN errs)))

\* generate_error_file starting at the header comment, without the import.
GenerateErrorFileNoImport(errs) ==
    SubSeq(FileHeader, 3, Len(FileHeader)) \o ErrorBlocks(errs, MapKeys(DOMAIN errs))

\* generate_error_file
GenerateErrorFile(errs) == FileHeader \o ErrorBlocks(errs, MapKeys(DOMAIN errs))

ErrorsPath == <<"errors", 0>>

Absent == [exists |-> FALSE, content |-> <<>>]

\* A lending_errors.rs left by an earlier build.
Committed == [exists |-> TRUE, content |-> <<Line("previous", <<>>, <<>>)>>]

\* fs::write: create or truncate, then write everything.
FsWrite(file, content, outcome, k) ==
    CASE outcome = "ok"            -> [exists |-> TRUE, content |-> content]
      [] outcome = "create_failed" -> file
      [] outcome = "write_failed"  -> [exists |-> TRUE,
                                       content |-> SubSeq(content, 1, k)]

----------------------------------------------------------------------------
(* Inputs *)

Decl(name, message) == [name |-> name, message |-> message]

\* const.ERR_<name>="<message>" lines as the regex captures them, untrimmed.
DeclPool ==
    { Decl(<<" ", "B">>, <<"x", " ">>),
      Decl(<<"B">>, <<"x">>),
      Decl(<<"B", " ">>, <<"y">>),
      Decl(<<"A">>, <<"y">>),
      Decl(<<"A", "B">>, <<"x">>) }

\* What a contract of the pipeline runs declares.
PipelineDecls ==
    { <<>>, <<Decl(<<" ", "B">>, <<"x", " ">>)>>, <<Decl(<<"B", " ">>, <<"y">>)>> }

Masm(parses, calls, decls) ==
    [ext |-> "masm", parses |-> parses, calls |-> calls, decls |-> decls, depth |-> 0]

\* The file in a subdirectory of the directory.
Nested(file) == [file EXCEPT !.depth = 1]

\* Contract i of n: malformed, or well-formed and calling into at most one
\* other contract.
LibCodes(n, i) ==
    { Masm(FALSE, {}, <<>>) }
    \cup { Masm(TRUE, c, d) : c \in {{}} \cup {{j} : j \in (1..n) \ {i}},
                              d \in PipelineDecls }

\* Note script: malformed, or well-formed and calling into at most contract 1.
ScriptCodes == { Masm(FALSE, {}, <<>>), Masm(TRUE, {}, <<>>), Masm(TRUE, {1}, <<>>) }

WithReadme(g) == [f \in {0} \cup DOMAIN g |-> IF f = 0 THEN Readme ELSE g[f]]

ContractsDirs ==
    UNION { { WithReadme(g) :
                g \in { h \in [1..n -> UNION {LibCodes(n, i) : i \in 1..n}] :
                          \A i \in 1..n : h[i] \in LibCodes(n, i) } }
            : n \in 0..MaxLibs }

NotesDirs == UNION { { WithReadme(g) : g \in [1..n -> ScriptCodes] } : n \in 0..MaxScripts }

SrcTrees ==
    { NoTree }
    \cup { [exists |-> TRUE, hasContracts |-> FALSE, contracts |-> NoDir,
            hasNotes |-> FALSE, notes |-> NoDir] }
    \cup { [exists |-> TRUE, hasContracts |-> FALSE, contracts |-> NoDir,
            hasNotes |-> TRUE, notes |-> nd] : nd \in NotesDirs }
    \cup { [exists |-> TRUE, hasContracts |-> TRUE, contracts |-> cd,
            hasNotes |-> FALSE, notes |-> NoDir] : cd \in ContractsDirs }
    \cup { [exists |-> TRUE, hasContracts |-> TRUE, contracts |-> cd,
            hasNotes |-> TRUE, notes |-> nd] : cd \in ContractsDirs, nd \in NotesDirs }

----------------------------------------------------------------------------
(* main *)

Init ==
    /\ src \in SrcTrees
    /\ ws = NoTree
    /\ canWrite \in BOOLEAN
    /\ pc = "main"
    /\ result = "running"
    /\ called = {}
    /\ warnings = {}
    /\ assembler = <<>>
    /\ masmFiles = <<>>
    /\ idx = 0
    /\ assetsLibs = {}
    /\ assetsProgs = {}
    /\ written = {}
    /\ errors = EmptyMap
    /\ walkTodo = {}
    /\ text = <<>>
    /\ errFile \in {Absent, Committed}
    /\ CopyIdle
    /\ ClientIdle
    /\ BUILD_GENERATED_FILES_IN_SRC = "unset"

\* main moving the source root into the workspace instead of copying it.
CopySourceMove ==
    /\ pc = "main"
    /\ src.exists
    /\ ws' = CopyDirectory(src, ws)
    /\ src' = NoTree
    /\ called' = called \cup {"copy_directory"}
    /\ pc' = "contracts_check"
    /\ UNCHANGED <<otherVars, canWrite, result, warnings, assembler, masmFiles, idx,
                   assetsLibs, assetsProgs, written, errors, walkTodo, text, errFile>>

\* main, lines 54-55: the source root exists and is copied.
CopySource ==
    /\ pc = "main"
    /\ src.exists
    /\ ws' = CopyDirectory(src, ws)
    /\ called' = called \cup {"copy_directory"}
    /\ pc' = "contracts_check"
    /\ UNCHANGED <<otherVars, src, canWrite, result, warnings, assembler, masmFiles, idx,
                   assetsLibs, assetsProgs, written, errors, walkTodo, text, errFile>>

\* main treating the missing source root as an error.
SkipAllFails ==
    /\ pc = "main"
    /\ ~src.exists
    /\ pc' = "done"
    /\ result' = "err_io"
    /\ UNCHANGED <<otherVars, src, ws, canWrite, called, warnings, assembler, masmFiles, idx,
                   assetsLibs, assetsProgs, written, errors, walkTodo, text, errFile>>

\* main, lines 80-84: no source root.
SkipAll ==
    /\ pc = "main"
    /\ ~src.exists
    /\ warnings' = warnings \cup {<<"no_src", 0>>}
    /\ pc' = "done"
    /\ result' = "ok"
    /\ UNCHANGED <<otherVars, src, ws, canWrite, called, assembler, masmFiles, idx,
                   assetsLibs, assetsProgs, written, errors, walkTodo, text, errFile>>

\* main, line 67, and compile_contracts up to its loop.
CompileContractsBegin ==
    /\ pc = "contracts_check"
    /\ ws.hasContracts
    /\ called' = called \cup {"compile_contracts"}
    /\ assembler' = <<>>
    /\ \E files \in GetMasmFiles(ws.contracts) : masmFiles' = files
    /\ idx' = 0
    /\ pc' = "compile_contracts"
    /\ UNCHANGED <<otherVars, src, ws, canWrite, result, warnings, assetsLibs, assetsProgs,
                   written, errors, walkTodo, text, errFile>>

\* main compiling the note scripts although there is no contracts
\* directory, with a fresh Assembler.
SkipContractsThenNotes ==
    /\ pc = "contracts_check"
    /\ ~ws.hasContracts
    /\ IF ws.hasNotes
       THEN /\ called' = called \cup {"compile_note_scripts"}
            /\ \E files \in GetMasmFiles(ws.notes) : masmFiles' = files
            /\ pc' = "compile_note_scripts"
       ELSE /\ pc' = "errors_check"
            /\ UNCHANGED <<called, masmFiles>>
    /\ UNCHANGED <<otherVars, src, ws, canWrite, result, warnings, assembler,
                   idx, assetsLibs, assetsProgs, written, errors, walkTodo, text, errFile>>

\* main, line 67: no contracts directory.
SkipContracts ==
    /\ pc = "contracts_check"
    /\ ~ws.hasContracts
    /\ pc' = "errors_check"
    /\ UNCHANGED <<otherVars, src, ws, canWrite, result, called, warnings, assembler, masmFiles,
                   idx, assetsLibs, assetsProgs, written, errors, walkTodo, text, errFile>>

\* The loop of compile_contracts recording a failure and going on to the
\* next unit.
CompileContractsIterKeepGoing ==
    /\ pc = "compile_contracts"
    /\ idx < Len(masmFiles)
    /\ LET name == masmFiles[idx + 1]
           lib  == CreateLibrary(assembler, name, ws.contracts[name])
       IN  IF lib.ok
           THEN /\ assembler' = Append(assembler, lib.library)
                /\ assetsLibs' = assetsLibs \cup {name}
                /\ written' = written \cup {<<"contracts", name>>}
                /\ warnings' = warnings \cup {<<"contract", name>>}
                /\ UNCHANGED result
           ELSE /\ result' = "err_assembly"
                /\ UNCHANGED <<assembler, assetsLibs, written, warnings>>
    /\ idx' = idx + 1
    /\ UNCHANGED <<otherVars, src, ws, canWrite, pc, called, masmFiles, assetsProgs, errors,
                   walkTodo, text, errFile>>

\* The loop of compile_contracts deleting the artifacts of the stage when a
\* unit fails.
CompileContractsIterCleanup ==
    /\ pc = "compile_contracts"
    /\ idx < Len(masmFiles)
    /\ LET name == masmFiles[idx + 1]
           lib  == CreateLibrary(assembler, name, ws.contracts[name])
       IN  IF lib.ok
           THEN /\ assembler' = Append(assembler, lib.library)
                /\ assetsLibs' = assetsLibs \cup {name}
                /\ written' = written \cup {<<"contracts", name>>}
                /\ warnings' = warnings \cup {<<"contract", name>>}
                /\ idx' = idx + 1
                /\ UNCHANGED <<pc, result>>
           ELSE /\ result' = "err_assembly"
                /\ pc' = "done"
                /\ assetsLibs' = {}
                /\ UNCHANGED <<assembler, written, warnings, idx>>
    /\ UNCHANGED <<otherVars, src, ws, canWrite, called, masmFiles, assetsProgs, errors,
                   walkTodo, text, errFile>>

\* The loop of compile_contracts putting the new library in front of the
\* registered ones.
CompileContractsIterPrepend ==
    /\ pc = "compile_contracts"
    /\ idx < Len(masmFiles)
    /\ LET name == masmFiles[idx + 1]
           lib  == CreateLibrary(assembler, name, ws.contracts[name])
       IN  IF lib.ok
           THEN /\ assembler' = <<lib.library>> \o assembler
                /\ assetsLibs' = assetsLibs \cup {name}
                /\ written' = written \cup {<<"contracts", name>>}
                /\ warnings' = warnings \cup {<<"contract", name>>}
                /\ idx' = idx + 1
                /\ UNCHANGED <<pc, result>>
           ELSE /\ result' = "err_assembly"
                /\ pc' = "done"
                /\ UNCHANGED <<assembler, assetsLibs, written, warnings, idx>>
    /\ UNCHANGED <<otherVars, src, ws, canWrite, called, masmFiles, assetsProgs, errors,
                   walkTodo, text, errFile>>

\* The loop of compile_contracts writing the artifact file of a unit before
\* assembling it.
CompileContractsIterWriteFirst ==
    /\ pc = "compile_contracts"
    /\ idx < Len(masmFiles)
    /\ LET name == masmFiles[idx + 1]
           lib  == CreateLibrary(assembler, name, ws.contracts[name])
       IN  /\ assetsLibs' = assetsLibs \cup {name}
           /\ written' = written \cup {<<"contracts", name>>}
           /\ IF lib.ok
              THEN /\ assembler' = Append(assembler, lib.library)
                   /\ warnings' = warnings \cup {<<"contract", name>>}
                   /\ idx' = idx + 1
                   /\ UNCHANGED <<pc, result>>
              ELSE /\ result' = "err_assembly"
                   /\ pc' = "done"
                   /\ UNCHANGED <<assembler, warnings, idx>>
    /\ UNCHANGED <<otherVars, src, ws, canWrite, called, masmFiles, assetsProgs, errors,
                   walkTodo, text, errFile>>

\* One iteration of the loop of compile_contracts.
CompileContractsIter ==
    /\ pc = "compile_contracts"
    /\ idx < Len(masmFiles)
    /\ LET name == masmFiles[idx + 1]
           lib  == CreateLibrary(assembler, name, ws.contracts[name])
       IN  IF lib.ok
           THEN /\ assembler' = Append(assembler, lib.library)
                /\ assetsLibs' = assetsLibs \cup {name}
                /\ written' = written \cup {<<"contracts", name>>}
                /\ warnings' = warnings \cup {<<"contract", name>>}
                /\ idx' = idx + 1
                /\ UNCHANGED <<pc, result>>
           ELSE /\ result' = "err_assembly"
                /\ pc' = "done"
                /\ UNCHANGED <<assembler, assetsLibs, written, warnings, idx>>
    /\ UNCHANGED <<otherVars, src, ws, canWrite, called, masmFiles, assetsProgs, errors,
                   walkTodo, text, errFile>>

\* main calling compile_note_scripts without testing the directory.
CompileContractsReturnAlwaysNotes ==
    /\ pc = "compile_contracts"
    /\ idx = Len(masmFiles)
    /\ called' = called \cup {"compile_note_scripts"}
    /\ \E files \in GetMasmFiles(ws.notes) : masmFiles' = files
    /\ pc' = "compile_note_scripts"
    /\ idx' = 0
    /\ UNCHANGED <<otherVars, src, ws, canWrite, result, warnings, assembler, assetsLibs,
                   assetsProgs, written, errors, walkTodo, text, errFile>>

\* compile_contracts returning before its loop has taken every unit.
CompileContractsReturnEarly ==
    /\ pc = "compile_contracts"
    /\ idx <= Len(masmFiles)
    /\ IF ws.hasNotes
       THEN /\ called' = called \cup {"compile_note_scripts"}
            /\ \E files \in GetMasmFiles(ws.notes) : masmFiles' = files
            /\ pc' = "compile_note_scripts"
            /\ UNCHANGED assembler
       ELSE /\ masmFiles' = <<>>
            /\ assembler' = <<>>
            /\ pc' = "errors_check"
            /\ UNCHANGED called
    /\ idx' = 0
    /\ UNCHANGED <<otherVars, src, ws, canWrite, result, warnings, assetsLibs, assetsProgs,
                   written, errors, walkTodo, text, errFile>>

\* compile_contracts returns the assembler; main, line 71.
CompileContractsReturn ==
    /\ pc = "compile_contracts"
    /\ idx = Len(masmFiles)
    /\ IF ws.hasNotes
       THEN /\ called' = called \cup {"compile_note_scripts"}
            /\ \E files \in GetMasmFiles(ws.notes) : masmFiles' = files
            /\ pc' = "compile_note_scripts"
            /\ UNCHANGED assembler
       ELSE /\ masmFiles' = <<>>
            /\ assembler' = <<>>
            /\ pc' = "errors_check"
            /\ UNCHANGED called
    /\ idx' = 0
    /\ UNCHANGED <<otherVars, src, ws, canWrite, result, warnings, assetsLibs, assetsProgs,
                   written, errors, walkTodo, text, errFile>>

\* main reporting a failed note script and carrying on with the next stage.
CompileNoteScriptsIterSwallow ==
    /\ pc = "compile_note_scripts"
    /\ idx < Len(masmFiles)
    /\ LET name == masmFiles[idx + 1]
       IN  IF AssembleProgram(assembler, ws.notes[name])
           THEN /\ assetsProgs' = assetsProgs \cup {name}
                /\ written' = written \cup {<<"note_scripts", name>>}
                /\ warnings' = warnings \cup {<<"note_script", name>>}
                /\ idx' = idx + 1
                /\ UNCHANGED <<pc, result>>
           ELSE /\ result' = "err_program"
                /\ pc' = "errors_check"
                /\ UNCHANGED <<assetsProgs, written, warnings, idx>>
    /\ UNCHANGED <<otherVars, src, ws, canWrite, called, assembler, masmFiles, assetsLibs,
                   errors, walkTodo, text, errFile>>

\* The loop of compile_note_scripts registering what it assembles in the
\* Assembler it was given.
CompileNoteScriptsIterRegisters ==
    /\ pc = "compile_note_scripts"
    /\ idx < Len(masmFiles)
    /\ LET name == masmFiles[idx + 1]
       IN  IF AssembleProgram(assembler, ws.notes[name])
           THEN /\ assetsProgs' = assetsProgs \cup {name}
                /\ written' = written \cup {<<"note_scripts", name>>}
                /\ warnings' = warnings \cup {<<"note_script", name>>}
                /\ assembler' = Append(assembler, name)
                /\ idx' = idx + 1
                /\ UNCHANGED <<pc, result>>
           ELSE /\ result' = "err_program"
                /\ pc' = "done"
                /\ UNCHANGED <<assetsProgs, written, warnings, idx, assembler>>
    /\ UNCHANGED <<otherVars, src, ws, canWrite, called, masmFiles, assetsLibs,
                   errors, walkTodo, text, errFile>>

\* One iteration of the loop of compile_note_scripts.
CompileNoteScriptsIter ==
    /\ pc = "compile_note_scripts"
    /\ idx < Len(masmFiles)
    /\ LET name == masmFiles[idx + 1]
       IN  IF AssembleProgram(assembler, ws.notes[name])
           THEN /\ assetsProgs' = assetsProgs \cup {name}
                /\ written' = written \cup {<<"note_scripts", name>>}
                /\ warnings' = warnings \cup {<<"note_script", name>>}
                /\ idx' = idx + 1
                /\ UNCHANGED <<pc, result>>
           ELSE /\ result' = "err_program"
                /\ pc' = "done"
                /\ UNCHANGED <<assetsProgs, written, warnings, idx>>
    /\ UNCHANGED <<otherVars, src, ws, canWrite, called, assembler, masmFiles, assetsLibs,
                   errors, walkTodo, text, errFile>>

\* compile_note_scripts returns; the assembler it was given is dropped.
CompileNoteScriptsReturn ==
    /\ pc = "compile_note_scripts"
    /\ idx = Len(masmFiles)
    /\ masmFiles' = <<>>
    /\ idx' = 0
    /\ assembler' = <<>>
    /\ pc' = "errors_check"
    /\ UNCHANGED <<otherVars, src, ws, canWrite, result, called, warnings, assetsLibs,
                   assetsProgs, written, errors, walkTodo, text, errFile>>

\* main, line 77, without the test of the contracts directory.
GenerateErrorsBeginUnguarded ==
    /\ pc = "errors_check"
    /\ canWrite
    /\ called' = called \cup {"generate_error_constants"}
    /\ errors' = EmptyMap
    /\ walkTodo' = WalkDir(ws.contracts)
    /\ pc' = "gen_errors"
    /\ UNCHANGED <<otherVars, src, ws, canWrite, result, warnings, assembler, masmFiles, idx,
                   assetsLibs, assetsProgs, written, text, errFile>>

\* main generating the registry only when BUILD_GENERATED_FILES_IN_SRC is
\* set, and returning without it otherwise.
GenerateErrorsBeginEnvDecides ==
    /\ pc = "errors_check"
    /\ ws.hasContracts /\ canWrite
    /\ IF BUILD_GENERATED_FILES_IN_SRC = "set"
       THEN /\ called' = called \cup {"generate_error_constants"}
            /\ errors' = EmptyMap
            /\ walkTodo' = WalkDir(ws.contracts)
            /\ pc' = "gen_errors"
            /\ UNCHANGED result
       ELSE /\ pc' = "done"
            /\ result' = "ok"
            /\ UNCHANGED <<called, errors, walkTodo>>
    /\ UNCHANGED <<otherVars, src, ws, canWrite, warnings, assembler, masmFiles, idx,
                   assetsLibs, assetsProgs, written, text, errFile>>

\* main, line 77, and generate_error_constants up to its loop.
GenerateErrorsBegin ==
    /\ pc = "errors_check"
    /\ ws.hasContracts /\ canWrite
    /\ called' = called \cup {"generate_error_constants"}
    /\ errors' = EmptyMap
    /\ walkTodo' = WalkDir(ws.contracts)
    /\ pc' = "gen_errors"
    /\ UNCHANGED <<otherVars, src, ws, canWrite, result, warnings, assembler, masmFiles, idx,
                   assetsLibs, assetsProgs, written, text, errFile>>

\* main, lines 77 and 84: nothing to generate.
SkipErrors ==
    /\ pc = "errors_check"
    /\ ~(ws.hasContracts /\ canWrite)
    /\ pc' = "done"
    /\ result' = "ok"
    /\ UNCHANGED <<otherVars, src, ws, canWrite, called, warnings, assembler, masmFiles, idx,
                   assetsLibs, assetsProgs, written, errors, walkTodo, text, errFile>>

\* One entry of the walk of generate_error_constants.
GenErrorsVisit ==
    /\ pc = "gen_errors"
    /\ \E f \in walkTodo :
         LET file == ws.contracts[f]
             got  == ExtractErrors(errors, file.decls)
         IN  IF ~IsMasmFile(file)
             THEN /\ walkTodo' = walkTodo \ {f}
                  /\ UNCHANGED <<errors, pc, result>>
             ELSE IF got.ok
             THEN /\ walkTodo' = walkTodo \ {f}
                  /\ errors' = got.errors
                  /\ UNCHANGED <<pc, result>>
             ELSE /\ result' = "err_conflict"
                  /\ pc' = "done"
                  /\ UNCHANGED <<errors, walkTodo>>
    /\ UNCHANGED <<otherVars, src, ws, canWrite, called, warnings, assembler, masmFiles, idx,
                   assetsLibs, assetsProgs, written, text, errFile>>

\* generate_error_constants, line 186: the map is consumed into the text.
GenErrorsCodegen ==
    /\ pc = "gen_errors"
    /\ walkTodo = {}
    /\ text' = GenerateErrorFile(errors)
    /\ errors' = EmptyMap
    /\ pc' = "gen_write"
    /\ UNCHANGED <<otherVars, src, ws, canWrite, result, called, warnings, assembler, masmFiles,
                   idx, assetsLibs, assetsProgs, written, walkTodo, errFile>>

\* generate_error_constants discarding the result of fs::write.
GenErrorsWriteIgnoreError ==
    /\ pc = "gen_write"
    /\ \E outcome \in {"ok", "create_failed", "write_failed"} :
       \E k \in 0..(Len(text) - 1) :
         /\ outcome # "write_failed" => k = 0
         /\ errFile' = FsWrite(errFile, text, outcome, k)
         /\ written' = IF outcome = "create_failed" THEN written
                       ELSE written \cup {ErrorsPath}
         /\ warnings' = warnings \cup {<<"errors", 0>>}
         /\ result' = "ok"
    /\ pc' = "done"
    /\ UNCHANGED <<otherVars, src, ws, canWrite, called, assembler, masmFiles, idx,
                   assetsLibs, assetsProgs, errors, walkTodo, text>>

\* generate_error_constants, lines 189-196, and main's Ok(()).
GenErrorsWrite ==
    /\ pc = "gen_write"
    /\ \E outcome \in {"ok", "create_failed", "write_failed"} :
       \E k \in 0..(Len(text) - 1) :
         /\ outcome # "write_failed" => k = 0
         /\ errFile' = FsWrite(errFile, text, outcome, k)
         /\ written' = IF outcome = "create_failed" THEN written
                       ELSE written \cup {ErrorsPath}
         /\ warnings' = IF outcome = "ok" THEN warnings \cup {<<"errors", 0>>}
                        ELSE warnings
         /\ result' = IF outcome = "ok" THEN "ok" ELSE "err_io"
    /\ pc' = "done"
    /\ UNCHANGED <<otherVars, src, ws, canWrite, called, assembler, masmFiles, idx,
                   assetsLibs, assetsProgs, errors, walkTodo, text>>

Next ==
    \/ CopySource
    \/ SkipAll
    \/ CompileContractsBegin
    \/ SkipContracts
    \/ CompileContractsIter
    \/ CompileContractsReturn
    \/ CompileNoteScriptsIter
    \/ CompileNoteScriptsReturn
    \/ GenerateErrorsBegin
    \/ SkipErrors
    \/ GenErrorsVisit
    \/ GenErrorsCodegen
    \/ GenErrorsWrite

Spec == Init /\ [][Next]_vars

----------------------------------------------------------------------------
(* main in either environment *)

\* main starts with BUILD_GENERATED_FILES_IN_SRC set or unset; line 45
\* prints the rerun-if-env-changed directive for it.
EnvInit ==
    /\ BUILD_GENERATED_FILES_IN_SRC \in {"unset", "set"}
    /\ src \in SrcTrees
    /\ ws = NoTree
    /\ canWrite \in BOOLEAN
    /\ pc = "main"
    /\ result = "running"
    /\ called = {}
    /\ warnings = {}
    /\ assembler = <<>>
    /\ masmFiles = <<>>
    /\ idx = 0
    /\ assetsLibs = {}
    /\ assetsProgs = {}
    /\ written = {}
    /\ errors = EmptyMap
    /\ walkTodo = {}
    /\ text = <<>>
    /\ errFile \in {Absent, Committed}
    /\ CopyIdle
    /\ ClientIdle

EnvSpec == EnvInit /\ [][Next]_vars

----------------------------------------------------------------------------
(* generate_error_constants on its own, over richer contracts trees *)

RECURSIVE SeqsUpTo(_, _)
SeqsUpTo(S, n) ==
    IF n = 0 THEN {<<>>}
    ELSE SeqsUpTo(S, n - 1)
         \cup {Append(q, x) : q \in {r \in SeqsUpTo(S, n - 1) : Len(r) = n - 1}, x \in S}

\* The contents of n files holding at most m captures together.
RECURSIVE FileContents(_, _)
FileContents(n, m) ==
    IF n = 0 THEN {<<>>}
    ELSE UNION { { <<c>> \o rest : rest \in FileContents(n - 1, m - Len(c)) }
                 : c \in SeqsUpTo(DeclPool, m) }

ErrTrees ==
    { [exists |-> TRUE, hasContracts |-> TRUE,
       contracts |-> WithReadme([i \in 1..MaxErrFiles |-> Masm(TRUE, {}, cs[i])]),
       hasNotes |-> FALSE, notes |-> NoDir]
      : cs \in FileContents(MaxErrFiles, MaxDecls) }

\* main has compiled the contracts and enters the walk.
ErrInit ==
    /\ src \in ErrTrees
    /\ ws = src
    /\ canWrite = TRUE
    /\ pc = "gen_errors"
    /\ result = "running"
    /\ called = {"copy_directory", "compile_contracts", "generate_error_constants"}
    /\ warnings = {<<"contract", i>> : i \in 1..MaxErrFiles}
    /\ assembler = <<>>
    /\ masmFiles = <<>>
    /\ idx = 0
    /\ assetsLibs = 1..MaxErrFiles
    /\ assetsProgs = {}
    /\ written = {<<"contracts", i>> : i \in 1..MaxErrFiles}
    /\ errors = EmptyMap
    /\ walkTodo = WalkDir(ws.contracts)
    /\ text = <<>>
    /\ errFile \in {Absent, Committed}
    /\ CopyIdle
    /\ ClientIdle
    /\ BUILD_GENERATED_FILES_IN_SRC = "unset"

ErrNext ==
    \/ GenErrorsVisit
    \/ GenErrorsCodegen
    \/ GenErrorsWrite

ErrSpec == ErrInit /\ [][ErrNext]_vars

----------------------------------------------------------------------------
(* compile_note_scripts alone, entered by main with the Assembler that     *)
(* compile_contracts returned                                              *)

MaxNotes == 2

\* A note script over n libraries: malformed, or well-formed and calling
\* into at most one library, which may be one that does not exist.
NoteCodes(n) ==
    { Masm(FALSE, {}, <<>>) }
    \cup { Masm(TRUE, c, <<>>) : c \in {{}} \cup {{j} : j \in 1..(n + 1)} }

NotesTrees ==
    UNION { UNION { { [exists |-> TRUE, hasContracts |-> TRUE,
                       contracts |-> WithReadme([i \in 1..n |-> Masm(TRUE, {}, <<>>)]),
                       hasNotes |-> TRUE, notes |-> WithReadme(g)]
                      : g \in [1..m -> NoteCodes(n)] }
                    : m \in 0..MaxNotes }
            : n \in 0..MaxLibs }

\* main, lines 68-72: every contract is compiled, in some order.
NotesInit ==
    /\ src \in NotesTrees
    /\ ws = src
    /\ canWrite \in BOOLEAN
    /\ pc = "compile_note_scripts"
    /\ result = "running"
    /\ called = {"copy_directory", "compile_contracts", "compile_note_scripts"}
    /\ warnings = {<<"contract", f>> : f \in (DOMAIN ws.contracts) \ {0}}
    /\ assembler \in GetMasmFiles(ws.contracts)
    /\ masmFiles \in GetMasmFiles(ws.notes)
    /\ idx = 0
    /\ assetsLibs = (DOMAIN ws.contracts) \ {0}
    /\ assetsProgs = {}
    /\ written = {<<"contracts", f>> : f \in (DOMAIN ws.contracts) \ {0}}
    /\ errors = EmptyMap
    /\ walkTodo = {}
    /\ text = <<>>
    /\ errFile \in {Absent, Committed}
    /\ CopyIdle
    /\ ClientIdle
    /\ BUILD_GENERATED_FILES_IN_SRC = "unset"

NotesNext ==
    \/ CompileNoteScriptsIter
    \/ CompileNoteScriptsReturn

NotesSpec == NotesInit /\ [][NotesNext]_vars

----------------------------------------------------------------------------
(* copy_directory, lines 266-294, step by step *)

\* main, line 55: copy_directory is entered; lines 267-278.
CopyInit ==
    /\ src = [NoTree EXCEPT !.exists = TRUE]
    /\ ws = NoTree
    /\ canWrite \in BOOLEAN
    /\ pc = "copy_directory"
    /\ result = "running"
    /\ called = {}
    /\ warnings = {}
    /\ assembler = <<>>
    /\ masmFiles = <<>>
    /\ idx = 0
    /\ assetsLibs = {}
    /\ assetsProgs = {}
    /\ written = {}
    /\ errors = EmptyMap
    /\ walkTodo = {}
    /\ text = <<>>
    /\ errFile = Absent
    /\ tree \in SourceTrees
    /\ dest \in StaleTrees
    /\ todo = << <<>> >>
    /\ entries = {}
    /\ visits = [p \in {<<>>} \cup {q \in DOMAIN tree : tree[q].kind = "dir"} |-> 0]
    /\ ClientIdle
    /\ BUILD_GENERATED_FILES_IN_SRC = "unset"

\* while let Some(goal) = todo.pop(), line 280, and read_dir of line 281.
CopyPop ==
    /\ pc = "copy_directory"
    /\ entries = {}
    /\ todo # <<>>
    /\ LET goal == todo[Len(todo)]
       IN  /\ todo' = SubSeq(todo, 1, Len(todo) - 1)
           /\ entries' = Children(tree, goal)
           /\ visits' = [visits EXCEPT ![goal] = @ + 1]
    /\ UNCHANGED <<BUILD_GENERATED_FILES_IN_SRC, clientVars, src, ws, canWrite, pc, result, called, warnings, assembler,
                   masmFiles, idx, assetsLibs, assetsProgs, written, errors,
                   walkTodo, text, errFile, tree, dest>>

\* The body of the for loop skipping a file the destination already has.
CopyEntrySkipExisting ==
    /\ pc = "copy_directory"
    /\ \E e \in entries :
         LET made == IF tree[e].kind = "dir"
                     THEN IF Exists(dest, e) THEN [ok |-> TRUE, fs |-> dest]
                          ELSE CreateDirAll(dest, e)
                     ELSE IF Exists(dest, e) THEN [ok |-> TRUE, fs |-> dest]
                     ELSE FsCopy(dest, e, tree[e])
         IN  IF made.ok
             THEN /\ dest' = made.fs
                  /\ todo' = IF tree[e].kind = "dir" THEN Append(todo, e) ELSE todo
                  /\ entries' = entries \ {e}
                  /\ UNCHANGED <<pc, result>>
             ELSE /\ pc' = "done"
                  /\ result' = "panic"
                  /\ UNCHANGED <<dest, todo, entries>>
    /\ UNCHANGED <<BUILD_GENERATED_FILES_IN_SRC, clientVars, src, ws, canWrite, called, warnings, assembler, masmFiles, idx,
                   assetsLibs, assetsProgs, written, errors, walkTodo, text,
                   errFile, tree, visits>>

\* The body of the for loop creating a directory without pushing it on todo.
CopyEntryNoPush ==
    /\ pc = "copy_directory"
    /\ \E e \in entries :
         LET made == IF tree[e].kind = "dir"
                     THEN IF Exists(dest, e) THEN [ok |-> TRUE, fs |-> dest]
                          ELSE CreateDirAll(dest, e)
                     ELSE FsCopy(dest, e, tree[e])
         IN  IF made.ok
             THEN /\ dest' = made.fs
                  /\ entries' = entries \ {e}
                  /\ UNCHANGED <<pc, result, todo>>
             ELSE /\ pc' = "done"
                  /\ result' = "panic"
                  /\ UNCHANGED <<dest, todo, entries>>
    /\ UNCHANGED <<BUILD_GENERATED_FILES_IN_SRC, clientVars, src, ws, canWrite, called, warnings, assembler, masmFiles, idx,
                   assetsLibs, assetsProgs, written, errors, walkTodo, text,
                   errFile, tree, visits>>

\* The body of the for loop, lines 282-292: a directory is created under
\* the destination when nothing exists there and pushed on todo, a file is
\* copied; each unwrap panics on a failure.
CopyEntry ==
    /\ pc = "copy_directory"
    /\ \E e \in entries :
         LET made == IF tree[e].kind = "dir"
                     THEN IF Exists(dest, e) THEN [ok |-> TRUE, fs |-> dest]
                          ELSE CreateDirAll(dest, e)
                     ELSE FsCopy(dest, e, tree[e])
         IN  IF made.ok
             THEN /\ dest' = made.fs
                  /\ todo' = IF tree[e].kind = "dir" THEN Append(todo, e) ELSE todo
                  /\ entries' = entries \ {e}
                  /\ UNCHANGED <<pc, result>>
             ELSE /\ pc' = "done"
                  /\ result' = "panic"
                  /\ UNCHANGED <<dest, todo, entries>>
    /\ UNCHANGED <<BUILD_GENERATED_FILES_IN_SRC, clientVars, src, ws, canWrite, called, warnings, assembler, masmFiles, idx,
                   assetsLibs, assetsProgs, written, errors, walkTodo, text,
                   errFile, tree, visits>>

\* The while loop ends, line 293, and copy_directory returns to main.
CopyReturn ==
    /\ pc = "copy_directory"
    /\ entries = {}
    /\ todo = <<>>
    /\ called' = called \cup {"copy_directory"}
    /\ pc' = "contracts_check"
    /\ UNCHANGED <<BUILD_GENERATED_FILES_IN_SRC, clientVars, src, ws, canWrite, result, warnings, assembler, masmFiles, idx,
                   assetsLibs, assetsProgs, written, errors, walkTodo, text,
                   errFile, copyVars>>

CopyNext ==
    \/ CopyPop
    \/ CopyEntry
    \/ CopyReturn

CopySpec == CopyInit /\ [][CopyNext]_vars

\* main is one thread that runs on until it returns or panics.
CopyFairSpec == CopySpec /\ WF_vars(CopyNext)

----------------------------------------------------------------------------
(* main over contracts trees with a MASM file in a subdirectory *)

\* The MASM file of the subdirectory: well-formed, with one declaration.
NestedCodes == { Nested(Masm(TRUE, {}, d)) : d \in PipelineDecls \ {<<>>} }

NestedStem == MaxLibs + 1

\* A contracts directory with one more MASM file, in a subdirectory.
NestedDirs ==
    { [f \in (DOMAIN cd) \cup {NestedStem} |-> IF f \in DOMAIN cd THEN cd[f] ELSE c]
      : cd \in ContractsDirs, c \in NestedCodes }

NestTrees ==
    { [exists |-> TRUE, hasContracts |-> TRUE, contracts |-> cd,
       hasNotes |-> FALSE, notes |-> NoDir] : cd \in NestedDirs }

NestInit ==
    /\ src \in NestTrees
    /\ ws = NoTree
    /\ canWrite = TRUE
    /\ pc = "main"
    /\ result = "running"
    /\ called = {}
    /\ warnings = {}
    /\ assembler = <<>>
    /\ masmFiles = <<>>
    /\ idx = 0
    /\ assetsLibs = {}
    /\ assetsProgs = {}
    /\ written = {}
    /\ errors = EmptyMap
    /\ walkTodo = {}
    /\ text = <<>>
    /\ errFile = Absent
    /\ CopyIdle
    /\ ClientIdle
    /\ BUILD_GENERATED_FILES_IN_SRC = "unset"

\* main when the source tree has a contracts directory and no note scripts
\* and the crate is built with CAN_WRITE_TO_SRC.
ContractsOnlyNext ==
    \/ CopySource
    \/ CompileContractsBegin
    \/ CompileContractsIter
    \/ CompileContractsReturn
    \/ GenerateErrorsBegin
    \/ GenErrorsVisit
    \/ GenErrorsCodegen
    \/ GenErrorsWrite

NestSpec == NestInit /\ [][ContractsOnlyNext]_vars

----------------------------------------------------------------------------
(* main in a build workspace that an earlier build has filled *)

DeletedStem == MaxLibs + 1

\* The unit the earlier source tree had and the present one has not.
DeletedCodes == { Masm(TRUE, {}, d) : d \in PipelineDecls }

\* The present source trees: a contracts directory, no note scripts.
RebuildTrees ==
    { [exists |-> TRUE, hasContracts |-> TRUE, contracts |-> cd,
       hasNotes |-> FALSE, notes |-> NoDir] : cd \in ContractsDirs }

\* The source tree as the earlier build saw it.
WithDeleted(t, c) ==
    [t EXCEPT !.contracts =
        [f \in (DOMAIN t.contracts) \cup {DeletedStem} |->
            IF f = DeletedStem THEN c ELSE t.contracts[f]]]

\* The earlier build has copied its source tree into OUT_DIR/asm; the unit
\* was then deleted from the source tree and main runs again.
StaleInit ==
    /\ src \in RebuildTrees
    /\ \E c \in DeletedCodes : ws = CopyDirectory(WithDeleted(src, c), NoTree)
    /\ canWrite = TRUE
    /\ pc = "main"
    /\ result = "running"
    /\ called = {}
    /\ warnings = {}
    /\ assembler = <<>>
    /\ masmFiles = <<>>
    /\ idx = 0
    /\ assetsLibs = {}
    /\ assetsProgs = {}
    /\ written = {}
    /\ errors = EmptyMap
    /\ walkTodo = {}
    /\ text = <<>>
    /\ errFile = Absent
    /\ CopyIdle
    /\ ClientIdle
    /\ BUILD_GENERATED_FILES_IN_SRC = "unset"

StaleSpec == StaleInit /\ [][ContractsOnlyNext]_vars

----------------------------------------------------------------------------
(* The client library: TransactionScriptBuilder of src/miden_client.rs.    *)
(* A String is a sequence of one-character strings, as above.              *)

\* The build script has run by the time the client library is used.
BuildIdle ==
    /\ src = NoTree
    /\ ws = NoTree
    /\ canWrite = TRUE
    /\ pc = "done"
    /\ result = "ok"
    /\ called = {}
    /\ warnings = {}
    /\ assembler = <<>>
    /\ masmFiles = <<>>
    /\ idx = 0
    /\ assetsLibs = {}
    /\ assetsProgs = {}
    /\ written = {}
    /\ errors = EmptyMap
    /\ walkTodo = {}
    /\ text = <<>>
    /\ errFile = Absent
    /\ CopyIdle
    /\ BUILD_GENERATED_FILES_IN_SRC = "unset"

MaxCalls == 3

Digits == <<"0", "1", "2", "3", "4", "5", "6", "7", "8", "9">>

HexDigits == <<"0", "1", "2", "3", "4", "5", "6", "7", "8", "9",
               "a", "b", "c", "d", "e", "f">>

\* Display for u64, as format!("{}", value) prints it: decimal, no sign,
\* no leading zero.
RECURSIVE ToDecimal(_)
ToDecimal(value) ==
    IF value < 10 THEN <<Digits[value + 1]>>
    ELSE ToDecimal(value \div 10) \o <<Digits[(value % 10) + 1]>>

\* hex::encode: two lower-case digits for each byte.
RECURSIVE HexEncode(_)
HexEncode(bytes) ==
    IF bytes = <<>> THEN <<>>
    ELSE <<HexDigits[(Head(bytes) \div 16) + 1], HexDigits[(Head(bytes) % 16) + 1]>>
         \o HexEncode(Tail(bytes))

\* AccountId::to_hex, lines 208-212.
to_hex(account_id) == HexEncode(account_id)

\* TransactionScriptBuilder::push putting its line in front of the code.
pushFront(self, value) ==
    <<"p", "u", "s", "h", ".">> \o ToDecimal(value) \o <<"\n">> \o self

\* TransactionScriptBuilder::push, lines 269-272.
push(self, value) ==
    self \o <<"p", "u", "s", "h", ".">> \o ToDecimal(value) \o <<"\n">>

\* TransactionScriptBuilder::call_procedure, lines 259-266.
call_procedure(self, account_id, procedure) ==
    self \o <<"c", "a", "l", "l", ".">> \o to_hex(account_id)
         \o <<":", ":">> \o procedure \o <<"\n">>

\* TransactionScriptBuilder::build, lines 275-277: format!("begin\n{}\nend").
build(self) ==
    <<"b", "e", "g", "i", "n", "\n">> \o self \o <<"\n", "e", "n", "d">>

\* Values pushed: one and several digits, with and without zeros.
PushValues == {0, 9, 10, 1000}

\* Account ids: byte vectors of different lengths, low and high nibbles.
AccountIds == {<<171>>, <<0, 255>>}

BorrowName == <<"b", "o", "r", "r", "o", "w">>

RepayName == <<"r", "e", "p", "a", "y">>

RecordBorrowName ==
    <<"r", "e", "c", "o", "r", "d", "_", "b", "o", "r", "r", "o", "w">>

RecordRepaymentName ==
    <<"r", "e", "c", "o", "r", "d", "_", "r", "e", "p", "a", "y", "m", "e", "n", "t">>

\* TransactionScriptBuilder::new, lines 252-256.
ScriptInit ==
    /\ BuildIdle
    /\ scriptCode = <<>>
    /\ script = <<>>
    /\ invoked = <<>>
    /\ txpc = "idle"
    /\ frame = [fn |-> "none"]
    /\ started = 0
    /\ executed = <<>>
    /\ ret = "none"

\* A call of push on the builder.
Push ==
    /\ script = <<>>
    /\ Len(invoked) < MaxCalls
    /\ \E value \in PushValues :
         /\ scriptCode' = push(scriptCode, value)
         /\ invoked' = Append(invoked, [method |-> "push", value |-> value])
    /\ UNCHANGED <<buildVars, script, txpc, frame, started, executed, ret>>

\* A call of call_procedure on the builder.
CallProcedure ==
    /\ script = <<>>
    /\ Len(invoked) < MaxCalls
    /\ \E account_id \in AccountIds, procedure \in {BorrowName, RepayName} :
         /\ scriptCode' = call_procedure(scriptCode, account_id, procedure)
         /\ invoked' = Append(invoked, [method |-> "call_procedure",
                                        account_id |-> account_id,
                                        procedure |-> procedure])
    /\ UNCHANGED <<buildVars, script, txpc, frame, started, executed, ret>>

\* build consumes the builder and returns the script.
Build ==
    /\ script = <<>>
    /\ script' = build(scriptCode)
    /\ UNCHANGED <<buildVars, scriptCode, invoked, txpc, frame, started, executed, ret>>

ScriptNext ==
    \/ Push
    \/ CallProcedure
    \/ Build

ScriptSpec == ScriptInit /\ [][ScriptNext]_vars

----------------------------------------------------------------------------
(* The client library: TransactionBuilder::borrow and ::repay of           *)
(* src/transactions.rs, over LendingClient::execute_transaction.             *)

MaxOps == 2

\* TransactionBuilder.pool_account_id.
PoolAccountId == <<171>>

UserAccountIds == {<<0, 255>>}

AssetIds == {2}

Amounts == {0, 1000}

\* What a call of execute_transaction yields to its caller, by its type
\* Result<TransactionResult>: an error, a result with success = false or a
\* result with success = true.  The stub of miden_client.rs returns the
\* last one only; the client it stands for returns any of them.
ExecuteTransaction == {"err", "unsuccessful", "success"}

\* The script of the pool transaction, lines 124-128 and 155-159.
PoolScript(fn, asset_id, amount) ==
    build(call_procedure(push(push(<<>>, amount), asset_id), PoolAccountId,
                         IF fn = "borrow" THEN BorrowName ELSE RepayName))

\* The script of record_borrow_in_user_account, lines 335-339, and of
\* record_repayment_in_user_account, lines 355-359.
RecordScript(fn, user_account_id, asset_id, amount) ==
    build(call_procedure(push(push(<<>>, amount), asset_id), user_account_id,
                         IF fn = "borrow" THEN RecordBorrowName ELSE RecordRepaymentName))

NoFrame == [fn |-> "none"]

TxInit ==
    /\ BuildIdle
    /\ scriptCode = <<>>
    /\ script = <<>>
    /\ invoked = <<>>
    /\ txpc = "idle"
    /\ frame = NoFrame
    /\ started = 0
    /\ executed = <<>>
    /\ ret = "none"

\* A call of borrow or of repay up to its execute_transaction: the script
\* of the pool transaction is built.
Call(fn) ==
    /\ txpc \in {"idle", "returned"}
    /\ started < MaxOps
    /\ \E user_account_id \in UserAccountIds, asset_id \in AssetIds, amount \in Amounts :
         /\ frame' = [fn |-> fn, user_account_id |-> user_account_id,
                      asset_id |-> asset_id, amount |-> amount]
         /\ script' = PoolScript(fn, asset_id, amount)
    /\ started' = started + 1
    /\ txpc' = "execute"
    /\ ret' = "none"
    /\ UNCHANGED <<buildVars, scriptCode, invoked, executed>>

\* borrow, lines 113-131.
Borrow == Call("borrow")

\* repay, lines 151-162.
Repay == Call("repay")

Executed(outcome) ==
    [call |-> started, fn |-> frame.fn, tx_script |-> script,
     account_id |-> frame.user_account_id, outcome |-> outcome]

\* The pool transaction followed by the user-account transaction whatever
\* result.success says.
PoolTransactionIgnoresFlag ==
    /\ txpc = "execute"
    /\ \E outcome \in ExecuteTransaction :
         /\ executed' = Append(executed, Executed(outcome))
         /\ IF outcome = "err"
            THEN /\ ret' = "err_execute"
                 /\ txpc' = "returned"
                 /\ UNCHANGED script
            ELSE /\ script' = RecordScript(frame.fn, frame.user_account_id,
                                           frame.asset_id, frame.amount)
                 /\ txpc' = "record"
                 /\ UNCHANGED ret
    /\ UNCHANGED <<buildVars, scriptCode, invoked, frame, started>>

\* borrow, lines 133-145, and repay, lines 164-176: the pool transaction is
\* executed; an error is returned with its context, success = false makes
\* the call bail, and success = true enters the record helper, which builds
\* its script.
PoolTransaction ==
    /\ txpc = "execute"
    /\ \E outcome \in ExecuteTransaction :
         /\ executed' = Append(executed, Executed(outcome))
         /\ CASE outcome = "err" ->
                   /\ ret' = "err_execute"
                   /\ txpc' = "returned"
                   /\ UNCHANGED script
              [] outcome = "unsuccessful" ->
                   /\ ret' = "err_failed"
                   /\ txpc' = "returned"
                   /\ UNCHANGED script
              [] outcome = "success" ->
                   /\ script' = RecordScript(frame.fn, frame.user_account_id,
                                             frame.asset_id, frame.amount)
                   /\ txpc' = "record"
                   /\ UNCHANGED ret
    /\ UNCHANGED <<buildVars, scriptCode, invoked, frame, started>>

\* record_borrow_in_user_account, lines 341-345, and
\* record_repayment_in_user_account, lines 361-365, then lines 147 and 178:
\* the follow-up transaction is executed; its error is returned, any result
\* makes the call return Ok(()).
RecordInUserAccount ==
    /\ txpc = "record"
    /\ \E outcome \in ExecuteTransaction :
         /\ executed' = Append(executed, Executed(outcome))
         /\ ret' = IF outcome = "err" THEN "err_record" ELSE "ok"
    /\ txpc' = "returned"
    /\ UNCHANGED <<buildVars, scriptCode, script, invoked, frame, started>>

TxNext ==
    \/ Borrow
    \/ Repay
    \/ PoolTransaction
    \/ RecordInUserAccount

TxSpec == TxInit /\ [][TxNext]_vars

----------------------------------------------------------------------------
(* What the contracts tree declares, as a set: no order of files or lines *)

MasmFilesOf(dir) == {f \in DOMAIN dir : IsMasmFile(dir[f])}

DeclsOfFiles(dir, files) ==
    UNION { { <<Trim(dir[f].decls[i].name), Trim(dir[f].decls[i].message)>> :
                i \in DOMAIN dir[f].decls } : f \in files }

AllDecls(dir) == DeclsOfFiles(dir, MasmFilesOf(dir))

NamesOf(decls) == {d[1] : d \in decls}

HasConflict(decls) == \E p, q \in decls : p[1] = q[1] /\ p[2] # q[2]

TreeHasConflict == HasConflict(AllDecls(ws.contracts))

RegistryOf(decls) ==
    [n \in NamesOf(decls) |-> (CHOOSE d \in decls : d[1] = n)[2]]

Visited == MasmFilesOf(ws.contracts) \ walkTodo

\* The lines after the header of a generated text.
Body(t) == SubSeq(t, Len(FileHeader) + 1, Len(t))

----------------------------------------------------------------------------
(* Claims *)

\* C1: when two declarations of the scanned tree have the same trimmed name
\* and different trimmed messages, generate_error_constants fails with the
\* conflict error, never reaches the code generation, and the error file is
\* neither created nor overwritten by the run.
C1_ConflictFailsBeforeWrite ==
    TreeHasConflict =>
        /\ pc # "gen_write"
        /\ ErrorsPath \notin written
        /\ errFile \in {Absent, Committed}
        /\ pc = "done" => result = "err_conflict"

C1_Witness ==
    /\ pc = "done"
    /\ result = "err_conflict"
    /\ errFile = Committed
    /\ \E f, g \in MasmFilesOf(ws.contracts) :
         /\ f # g
         /\ HasConflict(DeclsOfFiles(ws.contracts, {f, g}))
         /\ ~HasConflict(DeclsOfFiles(ws.contracts, {f}))
         /\ ~HasConflict(DeclsOfFiles(ws.contracts, {g}))

\* C2: when every name of the tree is always declared with one message,
\* extraction never fails, and at every point of the walk the registry is
\* exactly one entry per name declared in the files visited so far, carrying
\* that message; so a file that only repeats declarations changes nothing.
C2_IdenticalDuplicatesMerge ==
    ~TreeHasConflict =>
        /\ result # "err_conflict"
        /\ pc = "gen_errors" =>
             errors = RegistryOf(DeclsOfFiles(ws.contracts, Visited))

C2_Witness ==
    /\ pc = "gen_errors"
    /\ walkTodo = {}
    /\ ~TreeHasConflict
    /\ \E f, g \in MasmFilesOf(ws.contracts) :
         /\ f # g
         /\ \E i \in DOMAIN ws.contracts[f].decls, j \in DOMAIN ws.contracts[g].decls :
              /\ ws.contracts[f].decls[i] # ws.contracts[g].decls[j]
              /\ Trim(ws.contracts[f].decls[i].name) = Trim(ws.contracts[g].decls[j].name)
    /\ Cardinality(DOMAIN errors) = 1

\* C3: the generated text is the header followed by exactly one block, a
\* documentation line and then a constant line, per name declared in the
\* tree, and the names of the blocks are strictly ascending.
C3_OneBlockPerNameAscending ==
    pc = "gen_write" =>
        LET body  == Body(text)
            names == NamesOf(AllDecls(ws.contracts))
            n     == Cardinality(names)
        IN  /\ Len(body) = 2 * n
            /\ \A i \in 1..n :
                 /\ body[2 * i - 1].kind = "doc"
                 /\ body[2 * i].kind = "const"
            /\ {body[2 * i].name : i \in 1..n} = names
            /\ \A i \in 1..n : \A j \in 1..n :
                 i < j => StrLess(body[2 * i].name, body[2 * j].name)

C3_Witness ==
    /\ pc = "gen_write"
    /\ Cardinality(NamesOf(AllDecls(ws.contracts))) = 3
    /\ \E f \in MasmFilesOf(ws.contracts) :
         /\ Len(ws.contracts[f].decls) >= 2
         /\ StrLess(Trim(ws.contracts[f].decls[2].name),
                    Trim(ws.contracts[f].decls[1].name))

\* C4: the outcome of the stage is a function of the set of declarations of
\* the tree: whatever order the walk takes and whatever the order of the
\* lines, the generated text is the text of that set, a successful write
\* leaves exactly it on disk, and the walk ends in the conflict error exactly
\* when the set holds a conflict.
C4_OutputFunctionOfDeclarationSet ==
    LET decls == AllDecls(ws.contracts)
    IN  /\ pc = "gen_write" => text = GenerateErrorFile(RegistryOf(decls))
        /\ (pc = "done" /\ result = "ok") =>
             errFile = [exists |-> TRUE,
                        content |-> GenerateErrorFile(RegistryOf(decls))]
        /\ pc \in {"gen_write", "done"} =>
             (result = "err_conflict" <=> HasConflict(decls))

C4_Witness ==
    /\ pc = "done"
    /\ result = "ok"
    /\ \E f, g \in MasmFilesOf(ws.contracts) :
         /\ f # g
         /\ Len(ws.contracts[f].decls) = 2
         /\ Len(ws.contracts[g].decls) = 1
         /\ Cardinality(NamesOf(DeclsOfFiles(ws.contracts, {f}))) = 2
         /\ NamesOf(DeclsOfFiles(ws.contracts, {g})) \subseteq
              NamesOf(DeclsOfFiles(ws.contracts, {f}))

\* What a unit needs to assemble against a set of registered libraries.
Resolves(code, libs) == code.parses /\ code.calls \subseteq libs

\* The units get_masm_files listed before position j.
Before(j) == {masmFiles[k] : k \in 1..(j - 1)}

InContractsLoop == pc = "compile_contracts" \/ result = "err_assembly"

\* C5: in compile_contracts, unit i of the enumeration is assembled against
\* exactly the libraries of units 1..i-1: every unit the loop has passed
\* resolved against the units listed before it, the unit the loop fails on
\* does not, and a compiled unit never calls into a unit listed after it.
C5_AssembledAgainstEarlierUnits ==
    InContractsLoop =>
        /\ \A j \in 1..idx : Resolves(ws.contracts[masmFiles[j]], Before(j))
        /\ result = "err_assembly" =>
             ~Resolves(ws.contracts[masmFiles[idx + 1]], Before(idx + 1))
        /\ \A j \in 1..Len(masmFiles) : \A k \in 1..Len(masmFiles) :
             (j < k /\ masmFiles[k] \in ws.contracts[masmFiles[j]].calls)
                => masmFiles[j] \notin assetsLibs

C5_Witness ==
    /\ pc = "compile_contracts"
    /\ idx = 2
    /\ ws.contracts[masmFiles[2]].calls = {masmFiles[1]}
    /\ masmFiles[2] \in assetsLibs

\* C6: when unit k of the enumeration fails to parse or assemble, main has
\* returned the error, and neither unit k nor any unit listed after it has
\* an artifact written by the run or present in the target directory.
C6_NoArtifactAfterFailedUnit ==
    result = "err_assembly" =>
        /\ pc = "done"
        /\ \A j \in (idx + 1)..Len(masmFiles) :
             /\ <<"contracts", masmFiles[j]>> \notin written
             /\ masmFiles[j] \notin assetsLibs

C6_Witness ==
    /\ result = "err_assembly"
    /\ idx = 0
    /\ Len(masmFiles) = 2
    /\ Resolves(ws.contracts[masmFiles[2]], {})

Failed == result \in {"err_assembly", "err_program", "err_conflict", "err_io"}

\* C7: once a stage has failed main has returned the failure and nothing
\* more happens: after a library failure no program was compiled and the
\* error registry was not started, after a program failure the error
\* registry was not started.
C7_FailureStopsLaterStages ==
    /\ Failed => (pc = "done" /\ ~ENABLED Next)
    /\ result = "err_assembly" =>
         /\ "compile_note_scripts" \notin called
         /\ "generate_error_constants" \notin called
         /\ assetsProgs = {}
         /\ ErrorsPath \notin written
    /\ result = "err_program" =>
         /\ "generate_error_constants" \notin called
         /\ ErrorsPath \notin written
         /\ errFile \in {Absent, Committed}

C7_Witness ==
    /\ result = "err_program"
    /\ canWrite
    /\ assetsLibs # {}
    /\ ~TreeHasConflict

NoNotesCase == src.exists /\ src.hasContracts /\ ~src.hasNotes

Generated ==
    /\ ErrorsPath \in written
    /\ errFile = [exists |-> TRUE,
                  content |-> GenerateErrorFile(RegistryOf(AllDecls(ws.contracts)))]

C9_MissingSourceRoot ==
    ~src.exists =>
        /\ pc \in {"main", "done"}
        /\ called = {}
        /\ ws = NoTree
        /\ written = {}
        /\ assetsLibs = {} /\ assetsProgs = {}
        /\ errFile \in {Absent, Committed}
        /\ pc = "done" => (result = "ok" /\ warnings = {<<"no_src", 0>>})

C9_Witness == pc = "done" /\ ~src.exists /\ warnings # {}

\* C10: when the source root exists and main finds no contracts directory,
\* neither compile_contracts nor generate_error_constants is called, no
\* library artifact and no generated error file is written, and main
\* returns Ok.
C10_NoContractsDirectory ==
    (src.exists /\ pc # "main" /\ ~ws.hasContracts) =>
        /\ "compile_contracts" \notin called
        /\ "generate_error_constants" \notin called
        /\ assetsLibs = {}
        /\ \A p \in written : p[1] \notin {"contracts", "errors"}
        /\ errFile \in {Absent, Committed}
        /\ pc = "done" => result = "ok"

C10_Witness ==
    /\ pc = "done"
    /\ src.exists
    /\ ~ws.hasContracts
    /\ canWrite
    /\ ws.hasNotes

\* The units the running loop has passed.
Passed == {masmFiles[k] : k \in 1..idx}

NewContent == GenerateErrorFile(RegistryOf(AllDecls(ws.contracts)))

\* C12: the write of the generated error file is all-or-nothing: after a
\* fatal failure at any point, a failure of the write itself included, the
\* file on disk is either what it was before the run or the complete new
\* text, never a truncated one.
C12_WriteAllOrNothing ==
    Failed =>
        \/ errFile \in {Absent, Committed}
        \/ errFile = [exists |-> TRUE, content |-> NewContent]

\* The terminal outcomes of generate_error_constants.
Done ==
    /\ result = "ok"
    /\ ErrorsPath \in written
    /\ errFile = [exists |-> TRUE, content |-> NewContent]

Conflict ==
    /\ result = "err_conflict"
    /\ ErrorsPath \notin written
    /\ errFile \in {Absent, Committed}

IoFailure ==
    /\ result = "err_io"
    /\ \/ errFile \in {Absent, Committed}
       \/ /\ errFile.exists
          /\ LET new == NewContent
             IN  /\ Len(errFile.content) < Len(new)
                 /\ errFile.content = SubSeq(new, 1, Len(errFile.content))

\* C13 as stated: a run of generate_error_constants that has ended is either
\* Done, the file written, or Conflict, the file neither written nor
\* overwritten.
C13_Original == pc = "done" => (Done \/ Conflict)

\* C13 as amended: a run of generate_error_constants always goes on until it
\* ends, and it ends in exactly one of three outcomes: Done, the complete
\* text written; Conflict, the file neither written nor overwritten; or an
\* I/O failure, which leaves the file as it was or truncated to a strict
\* prefix of the new text.
C13_ThreeTerminalOutcomes ==
    /\ pc # "done" => (result = "running" /\ ENABLED ErrNext)
    /\ pc = "done" =>
         /\ ~ENABLED ErrNext
         /\ Done \/ Conflict \/ IoFailure
         /\ ~(Done /\ Conflict) /\ ~(Done /\ IoFailure) /\ ~(Conflict /\ IoFailure)

C13_Witness ==
    /\ pc = "done"
    /\ IoFailure
    /\ errFile.exists
    /\ Len(errFile.content) > Len(FileHeader)
    /\ errFile.content # NewContent

\* What the loop of compile_contracts does over a listing, as a function of
\* the listing: from unit i on, with the libraries asm registered and the
\* artifacts arts written.
RECURSIVE CompileContractsFrom(_, _, _, _, _)
CompileContractsFrom(dir, files, i, asm, arts) ==
    IF i > Len(files)
    THEN [ok |-> TRUE, artifacts |-> arts]
    ELSE LET lib == CreateLibrary(asm, files[i], dir[files[i]])
         IN  IF lib.ok
             THEN CompileContractsFrom(dir, files, i + 1,
                                       Append(asm, lib.library),
                                       arts \cup {files[i]})
             ELSE [ok |-> FALSE, artifacts |-> arts]

LibraryStageEnded ==
    \/ result = "err_assembly"
    \/ pc = "compile_contracts" /\ idx = Len(masmFiles)

\* C14: a build over the same source ends the same way whatever order the
\* directory listing yields the units in: when this build's library stage
\* has ended, a build taking any other listing of the same directory
\* succeeds or fails as this one did and writes the same library artifacts.
C14_SameOutcomeInEveryListingOrder ==
    LibraryStageEnded =>
        \A files \in GetMasmFiles(ws.contracts) :
            CompileContractsFrom(ws.contracts, files, 1, <<>>, {})
                = [ok |-> result # "err_assembly", artifacts |-> assetsLibs]

CopyReturned == pc = "contracts_check" /\ "copy_directory" \in called

\* C15: when copy_directory has returned, every directory and every regular
\* file of the source tree has a directory or file at the same relative path
\* under the destination, and every file copied there has exactly the bytes
\* of its source file.
C15_EveryPathCopied ==
    CopyReturned =>
        \A p \in DOMAIN tree :
            /\ Exists(dest, p)
            /\ tree[p].kind = "file" => dest[p] = tree[p]

C15_Witness ==
    /\ CopyReturned
    /\ \E p \in DOMAIN tree : Len(p) = 2 /\ tree[p].kind = "file"
    /\ \E q \in DOMAIN dest : q \notin DOMAIN tree

\* C16: no step of the build creates, changes or deletes anything under the
\* ASM source root: the tree under CARGO_MANIFEST_DIR/src/asm is the same
\* after every step of main as before it.
C16_SourceRootUntouched == [][src' = src /\ tree' = tree]_vars

C16_Witness ==
    /\ pc = "done"
    /\ result = "ok"
    /\ src.exists
    /\ ws.contracts = src.contracts
    /\ assetsLibs # {}
    /\ assetsProgs # {}
    /\ ErrorsPath \in written

\* The Assembler is alive: between the entry of compile_contracts and the
\* return of the last function it was handed to.
ContextAlive(at) == at \in {"compile_contracts", "compile_note_scripts"}

\* C18: the list of registered libraries only grows by appending: after i
\* successful iterations of compile_contracts it is the libraries of the
\* first i enumerated units, in that order, and while the Assembler lives no
\* step removes, replaces or reorders a registered library.
C18_RegisteredListAppendOnly ==
    /\ [](InContractsLoop => assembler = [j \in 1..idx |-> masmFiles[j]])
    /\ [][(ContextAlive(pc) /\ (ContextAlive(pc') \/ pc' = "done")) =>
            /\ Len(assembler') \in {Len(assembler), Len(assembler) + 1}
            /\ SubSeq(assembler', 1, Len(assembler)) = assembler]_vars

C18_Witness ==
    /\ pc = "compile_contracts"
    /\ idx = 2
    /\ assembler = <<2, 1>>
    /\ masmFiles = assembler

InNotesLoop == pc = "compile_note_scripts" \/ result = "err_program"

\* C19: compile_note_scripts never changes the Assembler it was given: all
\* through the stage it holds every library of the completed library stage,
\* each once; so every program unit the loop has passed resolved against
\* that whole set, the unit the loop fails on does not, and whether a unit
\* assembles depends on neither its place in the listing nor the other
\* program units.
C19_ProgramsSeeTheWholeContext ==
    /\ [][(pc = "compile_note_scripts" /\ InNotesLoop') =>
            assembler' = assembler]_vars
    /\ [](InNotesLoop =>
            /\ Range(assembler) = MasmFilesOf(ws.contracts)
            /\ Len(assembler) = Cardinality(MasmFilesOf(ws.contracts))
            /\ assetsProgs = Passed
            /\ \A f \in Passed :
                 Resolves(ws.notes[f], MasmFilesOf(ws.contracts))
            /\ result = "err_program" =>
                 ~Resolves(ws.notes[masmFiles[idx + 1]],
                           MasmFilesOf(ws.contracts)))

C19_Witness ==
    /\ pc = "compile_note_scripts"
    /\ idx = 2
    /\ masmFiles = <<2, 1>>
    /\ ws.notes[1].calls = {2}
    /\ ws.notes[2].calls = {}
    /\ assembler = <<2, 1>>

\* The place of a position of main in the order of its stages.
StageOf(at) ==
    CASE at = "main"                 -> 0
      [] at = "copy_directory"       -> 1
      [] at = "contracts_check"      -> 2
      [] at = "compile_contracts"    -> 3
      [] at = "compile_note_scripts" -> 4
      [] at = "errors_check"         -> 5
      [] at = "gen_errors"           -> 6
      [] at = "gen_write"            -> 7
      [] at = "done"                 -> 8

\* C20: the stages run in strict sequence.  main never goes back to an
\* earlier stage; nothing is compiled or written before the copy is
\* complete; the program stage is entered only from the end of the library
\* loop, with the Assembler holding every library, so at most once in a
\* build; and the error registry is started only when both compile stages
\* have produced all their artifacts.
C20_StagesInStrictSequence ==
    /\ [][StageOf(pc') >= StageOf(pc)]_vars
    /\ [][(pc' = "compile_note_scripts" /\ pc # "compile_note_scripts") =>
            /\ pc = "compile_contracts"
            /\ idx = Len(masmFiles)
            /\ assembler' = assembler
            /\ "compile_note_scripts" \notin called]_vars
    /\ []((called # {} \/ written # {} \/ pc \notin {"main", "done"}) =>
            /\ "copy_directory" \in called
            /\ ws = CopyDirectory(src, NoTree))
    /\ []((pc = "compile_note_scripts" \/ assetsProgs # {} \/ result = "err_program") =>
            /\ assetsLibs = MasmFilesOf(ws.contracts)
            /\ InNotesLoop => Range(assembler) = assetsLibs)
    /\ []("generate_error_constants" \in called =>
            /\ assetsLibs = MasmFilesOf(ws.contracts)
            /\ ws.hasNotes => assetsProgs = MasmFilesOf(ws.notes)
            /\ assembler = <<>>)

C20_Witness ==
    /\ pc = "gen_errors"
    /\ Cardinality(assetsLibs) = 2
    /\ assetsProgs # {}
    /\ walkTodo # WalkDir(ws.contracts)

\* C21: at every point of the loop of compile_contracts, and for as long as
\* the Assembler lives, every library artifact written by the run is the
\* artifact of a registered library, it carries the name of its unit, and
\* the unit the loop fails on has no artifact.
C21_ArtifactOnlyAfterRegistration ==
    (InContractsLoop \/ InNotesLoop) =>
        /\ assetsLibs \subseteq Range(assembler)
        /\ assetsLibs \subseteq MasmFilesOf(ws.contracts)
        /\ {p \in written : p[1] = "contracts"} = {<<"contracts", f>> : f \in assetsLibs}
        /\ result = "err_assembly" =>
             /\ masmFiles[idx + 1] \notin assetsLibs
             /\ masmFiles[idx + 1] \notin Range(assembler)

C21_Witness ==
    /\ result = "err_assembly"
    /\ idx = 1
    /\ ~ws.contracts[masmFiles[2]].parses
    /\ <<"contracts", masmFiles[1]>> \in written
    /\ assembler = <<masmFiles[1]>>

\* The lines of a generated text before its first block.
Preamble(t) ==
    LET firsts == {i \in 1..Len(t) : t[i].kind = "doc"}
        stop   == IF firsts = {} THEN Len(t) + 1
                  ELSE CHOOSE i \in firsts : \A j \in firsts : i <= j
    IN  SubSeq(t, 1, stop - 1)

\* The lines of a generated text from its first block on.
Blocks(t) == SubSeq(t, Len(Preamble(t)) + 1, Len(t))

\* Every block is a documentation line with a message followed by the
\* constant of a name with the same message, the one the tree declares.
WellFormedBlocks(t) ==
    LET b == Blocks(t)
        r == RegistryOf(AllDecls(ws.contracts))
    IN  /\ Len(b) % 2 = 0
        /\ \A i \in 1..(Len(b) \div 2) :
             /\ b[2 * i - 1].kind = "doc"
             /\ b[2 * i].kind = "const"
             /\ b[2 * i].name \in DOMAIN r
             /\ b[2 * i].message = r[b[2 * i].name]
             /\ b[2 * i - 1].message = b[2 * i].message

\* C22 as stated: the generated text is the header comment first and then
\* only the blocks: nothing but the header comment comes before the first
\* block.
C22_Original ==
    pc = "gen_write" =>
        /\ text[1].kind = "comment_generated"
        /\ \A i \in DOMAIN Preamble(text) :
             Preamble(text)[i].kind \in {"comment_generated", "comment_extracts", "blank"}
        /\ WellFormedBlocks(text)

\* C22 as amended: the generated text starts with the import of MasmError
\* and an empty line, then the two lines of the header comment and an empty
\* line, and after them come only the blocks, each a documentation line
\* with the literal message followed by the constant ERR_<NAME> carrying
\* that message.
C22_ImportThenHeaderThenBlocks ==
    pc = "gen_write" =>
        /\ [i \in DOMAIN Preamble(text) |-> Preamble(text)[i].kind]
             = <<"use", "blank", "comment_generated", "comment_extracts", "blank">>
        /\ WellFormedBlocks(text)

C22_Witness ==
    /\ pc = "gen_write"
    /\ Len(Blocks(text)) = 4
    /\ Blocks(text)[2].message # Blocks(text)[4].message

\* C23: on every finite tree of directories and regular files the loop of
\* copy_directory ends, by returning or by a panic; no directory is taken
\* off the work list twice; and when copy_directory returns, the source root
\* and every directory beneath it has been taken exactly once, the work list
\* is empty, no directory is half read, and main has called nothing else.
C23_WorkListTerminates ==
    /\ <>(pc # "copy_directory")
    /\ [](\A d \in DOMAIN visits : visits[d] <= 1)
    /\ [](CopyReturned =>
            /\ \A d \in DOMAIN visits : visits[d] = 1
            /\ DOMAIN visits = {<<>>} \cup {q \in DOMAIN tree : tree[q].kind = "dir"}
            /\ todo = <<>>
            /\ entries = {}
            /\ called = {"copy_directory"}
            /\ assetsLibs = {} /\ assetsProgs = {} /\ written = {})

C23_Witness ==
    /\ CopyReturned
    /\ \E d \in DOMAIN visits : Len(d) = 2 /\ visits[d] = 1
    /\ \E d \in DOMAIN visits : Len(d) = 1 /\ Children(tree, d) = {}

\* The declarations of the first k captures, trimmed.
DeclsOfCaptures(captures, k) ==
    {<<Trim(captures[i].name), Trim(captures[i].message)>> : i \in 1..k}

\* The map is the registry of the declarations: one entry per name, with
\* the message of every declaration of the name.
RegistryMatches(map, decls) ==
    /\ ~HasConflict(decls)
    /\ map = RegistryOf(decls)

\* C24: at every point of the scan, after every file and after every
\* capture of the file the walk takes next, the map holds one message per
\* name, the message of every declaration of that name processed so far;
\* and when a capture conflicts, extract_errors fails with the map as it was
\* before that capture, the stored message not replaced.
C24_RegistryInvariant ==
    pc = "gen_errors" =>
        LET done == DeclsOfFiles(ws.contracts, Visited)
        IN  /\ RegistryMatches(errors, done)
            /\ \A f \in walkTodo : \A k \in 0..Len(ws.contracts[f].decls) :
                 LET caps == ws.contracts[f].decls
                     got  == ExtractErrors(errors, SubSeq(caps, 1, k))
                 IN  IF got.ok
                     THEN RegistryMatches(got.errors, done \cup DeclsOfCaptures(caps, k))
                     ELSE \E j \in 1..k :
                            /\ RegistryMatches(got.errors,
                                               done \cup DeclsOfCaptures(caps, j - 1))
                            /\ Trim(caps[j].name) \in DOMAIN got.errors
                            /\ got.errors[Trim(caps[j].name)] # Trim(caps[j].message)

C24_Witness ==
    /\ pc = "gen_errors"
    /\ errors # EmptyMap
    /\ \E f \in walkTodo :
         /\ Len(ws.contracts[f].decls) = 2
         /\ ExtractErrors(errors, SubSeq(ws.contracts[f].decls, 1, 1)).ok
         /\ ~ExtractErrors(errors, ws.contracts[f].decls).ok

----------------------------------------------------------------------------
(* Scripts of the TransactionScriptBuilder *)

\* str::split('\n'): the pieces between the line feeds.
RECURSIVE Lines(_)
Lines(s) ==
    IF \A i \in DOMAIN s : s[i] # "\n" THEN <<s>>
    ELSE LET k == CHOOSE i \in DOMAIN s :
                      s[i] = "\n" /\ \A j \in 1..(i - 1) : s[j] # "\n"
         IN  <<SubSeq(s, 1, k - 1)>> \o Lines(SubSeq(s, k + 1, Len(s)))

DigitValue(c) == CHOOSE d \in 0..9 : Digits[d + 1] = c

\* The number a string of decimal digits denotes; -1 for anything else.
RECURSIVE ParseDecimal(_)
ParseDecimal(s) ==
    IF s = <<>> \/ \E i \in DOMAIN s : \A d \in 1..10 : Digits[d] # s[i] THEN -1
    ELSE IF Len(s) = 1 THEN DigitValue(s[1])
    ELSE 10 * ParseDecimal(SubSeq(s, 1, Len(s) - 1)) + DigitValue(s[Len(s)])

StartsWith(s, prefix) ==
    Len(s) >= Len(prefix) /\ SubSeq(s, 1, Len(prefix)) = prefix

EndsWith(s, suffix) ==
    Len(s) >= Len(suffix) /\ SubSeq(s, Len(s) - Len(suffix) + 1, Len(s)) = suffix

\* The line is the instruction of the builder call.
IsLineOf(line, call) ==
    IF call.method = "push"
    THEN /\ StartsWith(line, <<"p", "u", "s", "h", ".">>)
         /\ ParseDecimal(SubSeq(line, 6, Len(line))) = call.value
         /\ (Len(line) > 6 => line[6] # "0")
    ELSE /\ StartsWith(line, <<"c", "a", "l", "l", ".">>)
         /\ EndsWith(line, <<":", ":">> \o call.procedure)
         /\ Len(line) = 5 + 2 * Len(call.account_id) + 2 + Len(call.procedure)

\* The lines of the script that are not empty.
InstructionLines(s) == SelectSeq(Lines(s), LAMBDA l : l # <<>>)

\* C25: a built script starts with the line "begin" and ends with the line
\* "end", and its non-empty lines between the two are one instruction line
\* for each push and call_procedure call made on the builder, in the order
\* of the calls, the line of push(v) being "push." followed by v in decimal.
C25_ScriptLinesFollowCalls ==
    script # <<>> =>
        LET all  == Lines(script)
            body == InstructionLines(script)
        IN  /\ all[1] = <<"b", "e", "g", "i", "n">>
            /\ all[Len(all)] = <<"e", "n", "d">>
            /\ Len(body) = Len(invoked) + 2
            /\ \A i \in DOMAIN invoked : IsLineOf(body[i + 1], invoked[i])
            /\ \A i \in 2..(Len(all) - 1) :
                   all[i] # <<>> => \E j \in DOMAIN invoked : IsLineOf(all[i], invoked[j])

\* A script built after push(1000), call_procedure, push(0), in that order.
C25_Witness ==
    /\ script # <<>>
    /\ Len(invoked) = 3
    /\ invoked[1].method = "push" /\ invoked[1].value = 1000
    /\ invoked[2].method = "call_procedure"
    /\ invoked[3].method = "push" /\ invoked[3].value = 0
    /\ InstructionLines(script)[2] = <<"p", "u", "s", "h", ".", "1", "0", "0", "0">>

----------------------------------------------------------------------------
(* Order of the transactions of borrow and repay *)

\* The transactions executed by the c-th call of borrow or repay, in order.
TransactionsOf(c) == SelectSeq(executed, LAMBDA t : t.call = c)

\* The procedure the script calls, as its call line names it.
CallsInto(tx_script, account_id, procedure) ==
    \E i \in DOMAIN Lines(tx_script) :
        Lines(tx_script)[i] = <<"c", "a", "l", "l", ".">> \o HexEncode(account_id)
                                  \o <<":", ":">> \o procedure

IsPoolTransaction(t) ==
    CallsInto(t.tx_script, PoolAccountId,
              IF t.fn = "borrow" THEN BorrowName ELSE RepayName)

IsFollowUp(t) ==
    CallsInto(t.tx_script, t.account_id,
              IF t.fn = "borrow" THEN RecordBorrowName ELSE RecordRepaymentName)

\* C30: in every call of borrow and of repay the first transaction executed
\* is the pool transaction; the follow-up transaction on the user account
\* (record_borrow, respectively record_repayment) is executed only after the
\* pool transaction reported success, and at most once; when the pool
\* transaction failed or reported success = false, the call has returned an
\* error and has executed no follow-up transaction.
C30_FollowUpOnlyAfterPoolSuccess ==
    \A c \in 1..started :
        LET txs == TransactionsOf(c)
        IN  /\ Len(txs) <= 2
            /\ Len(txs) >= 1 => IsPoolTransaction(txs[1]) /\ ~IsFollowUp(txs[1])
            /\ Len(txs) = 2 =>
                   /\ txs[1].outcome = "success"
                   /\ IsFollowUp(txs[2]) /\ ~IsPoolTransaction(txs[2])
            /\ (Len(txs) >= 1 /\ txs[1].outcome # "success") =>
                   /\ Len(txs) = 1
                   /\ c = started => (txpc = "returned" /\ ret \in {"err_execute", "err_failed"})
            /\ (c = started /\ txpc = "record") =>
                   (Len(txs) = 1 /\ txs[1].outcome = "success")
            /\ (c = started /\ txpc = "returned" /\ ret = "ok") => Len(txs) = 2

\* A borrow whose pool transaction reported success = false, after a repay
\* that ran its follow-up transaction.
C30_Witness ==
    /\ started = 2
    /\ txpc = "returned"
    /\ ret = "err_failed"
    /\ frame.fn = "borrow"
    /\ Len(TransactionsOf(1)) = 2
    /\ TransactionsOf(1)[1].fn = "repay"
    /\ TransactionsOf(2)[1].outcome = "unsuccessful"

\* C26: when main finds no contracts directory but a note-scripts directory,
\* compile_note_scripts is never called, no program artifact is written and
\* main returns Ok; and in every build the note scripts are compiled only
\* after compile_contracts was called on an existing contracts directory.
C26_NoProgramsWithoutContracts ==
    /\ (pc # "main" /\ src.exists /\ ~ws.hasContracts /\ ws.hasNotes) =>
           /\ "compile_note_scripts" \notin called
           /\ pc # "compile_note_scripts"
           /\ assetsProgs = {}
           /\ \A p \in written : p[1] # "note_scripts"
           /\ pc = "done" => result = "ok"
    /\ ("compile_note_scripts" \in called \/ assetsProgs # {}) =>
           (ws.hasContracts /\ "compile_contracts" \in called)

\* main has returned with a well-formed note script left uncompiled.
C26_Witness ==
    /\ pc = "done"
    /\ result = "ok"
    /\ ~ws.hasContracts
    /\ ws.hasNotes
    /\ \E f \in DOMAIN ws.notes :
           /\ IsMasmFile(ws.notes[f])
           /\ AssembleProgram(<<>>, ws.notes[f])

----------------------------------------------------------------------------
(* Files the two stages cover *)

TopLevelFiles(dir) == {f \in MasmFilesOf(dir) : dir[f].depth = 0}

NestedFiles(dir) == {f \in MasmFilesOf(dir) : dir[f].depth > 0}

\* generate_error_constants has returned Ok or the conflict error.
ScanEnded ==
    /\ pc = "done"
    /\ "generate_error_constants" \in called
    /\ result \in {"ok", "err_conflict"}

\* C27: compile_contracts enumerates and compiles only the MASM files
\* directly in the contracts directory, and no library artifact is written
\* for a MASM file of a subdirectory; the error scan visits the MASM files
\* at every depth, so that the registry at the end of the scan, and the
\* file generated from it, hold the declarations of the nested files as
\* well, and the scan fails exactly when the declarations of all the files,
\* nested ones included, conflict.
C27_ScanCoversMoreThanCompile ==
    /\ pc = "compile_contracts" =>
           Range(masmFiles) = TopLevelFiles(ws.contracts)
    /\ \A f \in NestedFiles(ws.contracts) :
           /\ f \notin assetsLibs
           /\ f \notin Range(assembler)
           /\ <<"contracts", f>> \notin written
    /\ pc = "gen_errors" => NestedFiles(ws.contracts) \subseteq walkTodo \cup Visited
    /\ (pc = "gen_errors" /\ walkTodo = {}) =>
           /\ errors = RegistryOf(AllDecls(ws.contracts))
           /\ \A d \in DeclsOfFiles(ws.contracts, NestedFiles(ws.contracts)) :
                  d[1] \in DOMAIN errors /\ errors[d[1]] = d[2]
    /\ ScanEnded =>
           /\ result = "err_conflict" <=> TreeHasConflict
           /\ result = "ok" =>
                  errFile.content = GenerateErrorFile(RegistryOf(AllDecls(ws.contracts)))

\* The scan has failed on a conflict between a nested file and a compiled
\* one: the files compile_contracts compiled do not conflict among
\* themselves, and all of them have their artifact.
C27_Witness ==
    /\ ScanEnded
    /\ result = "err_conflict"
    /\ NestedFiles(ws.contracts) # {}
    /\ ~HasConflict(DeclsOfFiles(ws.contracts, TopLevelFiles(ws.contracts)))
    /\ assetsLibs = TopLevelFiles(ws.contracts)
    /\ assetsLibs # {}

----------------------------------------------------------------------------
(* A unit deleted from the source tree *)

\* compile_contracts has returned Ok to main.
ContractsCompiled ==
    \/ pc \in {"errors_check", "gen_errors", "gen_write"}
    \/ pc = "done" /\ "generate_error_constants" \in called

\* C28: the copy leaves in place a workspace file that the source tree no
\* longer has (no step of main removes or changes it) while every file of
\* the source tree is in the workspace with the source's content; and the
\* unit deleted from the source is enumerated by compile_contracts, has its
\* library artifact written by the run once compile_contracts has returned
\* Ok, and is visited by the error scan, whose registry holds its
\* declarations and fails on its conflicts.
C28_DeletedUnitStillBuilt ==
    /\ [](/\ DeletedStem \notin DOMAIN src.contracts
          /\ DeletedStem \in DOMAIN ws.contracts
          /\ pc # "main" =>
                 /\ DOMAIN ws.contracts = (DOMAIN src.contracts) \cup {DeletedStem}
                 /\ \A f \in DOMAIN src.contracts : ws.contracts[f] = src.contracts[f]
          /\ pc = "compile_contracts" => DeletedStem \in Range(masmFiles)
          /\ ContractsCompiled =>
                 /\ DeletedStem \in assetsLibs
                 /\ <<"contracts", DeletedStem>> \in written
          /\ pc = "gen_errors" => DeletedStem \in walkTodo \cup Visited
          /\ (pc = "gen_errors" /\ walkTodo = {}) =>
                 \A d \in DeclsOfFiles(ws.contracts, {DeletedStem}) :
                     d[1] \in DOMAIN errors /\ errors[d[1]] = d[2]
          /\ (pc = "done" /\ ContractsCompiled /\ result \in {"ok", "err_conflict"}) =>
                 (result = "err_conflict" <=> TreeHasConflict))
    /\ [][ws'.contracts[DeletedStem] = ws.contracts[DeletedStem]]_vars

\* The build has failed on a conflict that the deleted unit alone brings:
\* the present source tree declares no conflict, and every unit, the deleted
\* one included, was compiled.
C28_Witness ==
    /\ pc = "done"
    /\ result = "err_conflict"
    /\ ~HasConflict(AllDecls(src.contracts))
    /\ MasmFilesOf(src.contracts) # {}
    /\ assetsLibs = MasmFilesOf(src.contracts) \cup {DeletedStem}

----------------------------------------------------------------------------
(* When the registry is generated *)

\* The conditions of the claim, on a run that has ended: the contracts
\* directory exists, no compile stage has failed, CAN_WRITE_TO_SRC holds.
RegistryConditions ==
    /\ ws.hasContracts
    /\ result \notin {"err_assembly", "err_program"}
    /\ canWrite

\* C29 as stated: at the end of a run the error registry has been generated
\* exactly when the contracts directory exists, the compile stages that ran
\* succeeded and CAN_WRITE_TO_SRC holds.
C29_Original ==
    pc = "done" => (Generated <=> RegistryConditions)

\* C29 as amended: at the end of a run generate_error_constants has been
\* called exactly when the contracts directory exists, the compile stages
\* that ran succeeded and CAN_WRITE_TO_SRC holds, and the registry has been
\* generated exactly when, in addition, the declarations of the contracts
\* tree do not conflict and the write of the file has not failed; this is so
\* whether BUILD_GENERATED_FILES_IN_SRC is set or not, and the file on disk
\* is what the run found whenever the registry is not generated.
C29_RegistryWhenConditionsHold ==
    pc = "done" =>
        /\ "generate_error_constants" \in called <=> RegistryConditions
        /\ Generated <=> (RegistryConditions /\ ~TreeHasConflict /\ result # "err_io")
        /\ ErrorsPath \in written => RegistryConditions
        /\ ~RegistryConditions => errFile \in {Absent, Committed}

\* The registry has been generated with the variable unset.
C29_Witness ==
    /\ pc = "done"
    /\ BUILD_GENERATED_FILES_IN_SRC = "unset"
    /\ RegistryConditions
    /\ Generated
    /\ "compile_note_scripts" \in called

====
